---- MODULE Spec2Model ----
(***************************************************************************)
(* FinanceAI statement extraction and analysis pipeline.                   *)
(*                                                                         *)
(* Text is modelled as a sequence of characters, each character a string   *)
(* of the alphabet below (a character outside ASCII is written as a named  *)
(* symbol such as "o'" ).  Regular expressions are modelled by a matcher   *)
(* that settles on the match a backtracking engine finds with JavaScript's *)
(* preference order (greedy: most repetitions first, lazy: fewest first),  *)
(* so that the capture groups are the ones String.prototype.match returns. *)
(***************************************************************************)
EXTENDS Integers, Sequences, FiniteSets, TLC

(***************************************************************************)
(* Characters and character classes                                        *)
(***************************************************************************)
Digit == {"0", "1", "2", "3", "4", "5", "6", "7", "8", "9"}

UpperAZ == {"A", "B", "C", "D", "E", "F", "G", "H", "I", "J", "K", "L", "M",
            "N", "O", "P", "Q", "R", "S", "T", "U", "V", "W", "X", "Y", "Z"}

LowerAZ == {"a", "b", "c", "d", "e", "f", "g", "h", "i", "j", "k", "l", "m",
            "n", "o", "p", "q", "r", "s", "t", "u", "v", "w", "x", "y", "z"}

\* \s of a regular expression, and what String.prototype.trim removes
WhiteSpace == {" ", "<tab>", "<nl>"}

UpperOf ==
    ("a" :> "A") @@ ("b" :> "B") @@ ("c" :> "C") @@ ("d" :> "D") @@ ("e" :> "E") @@
    ("f" :> "F") @@ ("g" :> "G") @@ ("h" :> "H") @@ ("i" :> "I") @@ ("j" :> "J") @@
    ("k" :> "K") @@ ("l" :> "L") @@ ("m" :> "M") @@ ("n" :> "N") @@ ("o" :> "O") @@
    ("p" :> "P") @@ ("q" :> "Q") @@ ("r" :> "R") @@ ("s" :> "S") @@ ("t" :> "T") @@
    ("u" :> "U") @@ ("v" :> "V") @@ ("w" :> "W") @@ ("x" :> "X") @@ ("y" :> "Y") @@
    ("z" :> "Z") @@ ("o'" :> "O'") @@ ("i'" :> "I'") @@ ("e'" :> "E'")

\* String.prototype.toUpperCase
toUpperCase(s) ==
    SubSeq([i \in 1..Len(s) |-> IF s[i] \in DOMAIN UpperOf THEN UpperOf[s[i]] ELSE s[i]],
           1, Len(s))

\* a character class: the characters of set when neg is FALSE, all others when TRUE
Cls(S) == [neg |-> FALSE, set |-> S]
Dot == [neg |-> TRUE, set |-> {}]
DigitC == Cls(Digit)
SpaceC == Cls(WhiteSpace)
WordC == Cls(Digit \cup UpperAZ \cup LowerAZ \cup {"_"})
NumC == Cls(Digit \cup {".", ","})
InClass(c, cls) == (c \in cls.set) # cls.neg

(***************************************************************************)
(* Pattern items.  An item repeats a fixed-length unit (a sequence of       *)
(* classes) between min and max times (max -1: no upper limit); grp is the capture group the item   *)
(* belongs to (0: none).                                                   *)
(***************************************************************************)
Item(unit, min, max, lazy, grp) ==
    [unit |-> unit, min |-> min, max |-> max, lazy |-> lazy, grp |-> grp]
One(cls, grp) == Item(<<cls>>, 1, 1, FALSE, grp)
Ch(c, grp) == One(Cls({c}), grp)
Opt(cls, grp) == Item(<<cls>>, 0, 1, FALSE, grp)
Plus(cls, grp) == Item(<<cls>>, 1, -1, FALSE, grp)
PlusLazy(cls, grp) == Item(<<cls>>, 1, -1, TRUE, grp)
Star(cls, grp) == Item(<<cls>>, 0, -1, FALSE, grp)
StarLazy(cls, grp) == Item(<<cls>>, 0, -1, TRUE, grp)
Rep(cls, min, max, grp) == Item(<<cls>>, min, max, FALSE, grp)
\* a literal string: one item whose unit spells it
Lit(s, grp) ==
    <<Item(SubSeq([i \in 1..Len(s) |-> Cls({s[i]})], 1, Len(s)), 1, 1, FALSE, grp)>>

UnitAt(line, pos, unit) ==
    /\ pos + Len(unit) - 1 <= Len(line)
    /\ \A j \in 1..Len(unit) : InClass(line[pos + j - 1], unit[j])

Min(S) == CHOOSE x \in S : \A y \in S : x <= y
Max(S) == CHOOSE x \in S : \A y \in S : x >= y

\* the number of consecutive units at pos, at most cap (cap -1: no limit)
RunLength(line, pos, unit, cap) ==
    LET fit == (Len(line) - pos + 1) \div Len(unit)
        limit == IF cap < 0 \/ fit < cap THEN fit ELSE cap
        miss == {m \in 1..limit : ~UnitAt(line, pos + (m - 1) * Len(unit), unit)}
    IN IF limit <= 0 THEN 0 ELSE IF miss = {} THEN limit ELSE Min(miss) - 1

\* the positions at which item it, started at pos, can stop
EndsOf(line, it, pos) ==
    {pos + n * Len(it.unit) : n \in it.min..RunLength(line, pos, it.unit, it.max)}

\* Reach(pat, line, lo, hi, from)[j]: the positions after item lo + j - 1
\* that some choice of repetition counts for items lo.. reaches from a
\* position of from before item lo.  The items are halved rather than taken
\* one by one to keep the evaluation shallow.
RECURSIVE Reach(_, _, _, _, _)
Reach(pat, line, lo, hi, from) ==
    IF lo = hi
    THEN <<UNION {EndsOf(line, pat[lo], p) : p \in from}>>
    ELSE LET mid == (lo + hi) \div 2
             left == Reach(pat, line, lo, mid, from)
         IN left \o Reach(pat, line, mid + 1, hi, left[Len(left)])

\* Good(pat, line, before, lo, hi, to)[j]: the positions of before[hi - j + 1]
\* (the reachable positions before item hi - j + 1) from which items
\* hi - j + 1 .. hi can stop at a position of to; the last item comes first
RECURSIVE Good(_, _, _, _, _, _)
Good(pat, line, before, lo, hi, to) ==
    IF lo = hi
    THEN <<{p \in before[lo] : EndsOf(line, pat[lo], p) \cap to # {}}>>
    ELSE LET mid == (lo + hi) \div 2
             right == Good(pat, line, before, mid + 1, hi, to)
         IN right \o Good(pat, line, before, lo, mid, right[Len(right)])

\* the stops the backtracking matcher settles on for items lo..hi from pos:
\* each item in turn takes the most repetitions (the fewest when lazy) that
\* let the rest match, which is from a position of good (of final after the
\* last item)
RECURSIVE Path(_, _, _, _, _, _, _)
Path(pat, line, good, final, lo, hi, pos) ==
    IF lo = hi
    THEN LET after == IF lo = Len(pat) THEN final ELSE good[Len(pat) - lo]
             stops == EndsOf(line, pat[lo], pos) \cap after
         IN <<IF pat[lo].lazy THEN Min(stops) ELSE Max(stops)>>
    ELSE LET mid == (lo + hi) \div 2
             left == Path(pat, line, good, final, lo, mid, pos)
         IN left \o Path(pat, line, good, final, mid + 1, hi, left[Len(left)])

NoMatch == [ok |-> FALSE, start |-> 0, ends |-> <<>>]

\* The leftmost match of pat that starts at a position of starts; toEnd: the
\* pattern ends with $.  ends[k] is the position after item k.
Match(pat, line, starts, toEnd) ==
    LET K == Len(pat)
        reach == Reach(pat, line, 1, K, starts)
        final == IF toEnd THEN {Len(line) + 1} ELSE reach[K]
        good == Good(pat, line, <<starts>> \o reach, 1, K, final)
    IN IF good[K] = {} THEN NoMatch
       ELSE [ok |-> TRUE, start |-> Min(good[K]),
             ends |-> Path(pat, line, good, final, 1, K, Min(good[K]))]

\* line.match(/^pat$/)
MatchAll(pat, line) == Match(pat, line, {1}, TRUE)

\* the text captured by group g of a successful match m = MatchAll(pat, line)
Group(pat, line, m, g) ==
    LET idx == {k \in 1..Len(pat) : pat[k].grp = g}
        first == Min(idx)
        last == Max(idx)
        from == IF first = 1 THEN m.start ELSE m.ends[first - 1]
    IN SubSeq(line, from, m.ends[last] - 1)

\* pattern.test(line) for a pattern without ^ : a match starting anywhere
Search(pat, line, toEnd) == Match(pat, line, 1..(Len(line) + 1), toEnd).ok

(***************************************************************************)
(* String helpers                                                          *)
(***************************************************************************)
\* String.prototype.trimStart, trimEnd and trim
TrimStart(s) ==
    LET keep == {i \in 1..Len(s) : s[i] \notin WhiteSpace}
    IN IF keep = {} THEN <<>> ELSE SubSeq(s, Min(keep), Len(s))
TrimEnd(s) ==
    LET keep == {i \in 1..Len(s) : s[i] \notin WhiteSpace}
    IN IF keep = {} THEN <<>> ELSE SubSeq(s, 1, Max(keep))
Trim(s) == TrimEnd(TrimStart(s))

\* the characters of s at the positions of keep, in order
Pick(s, keep) ==
    LET idx == SelectSeq([i \in 1..Len(s) |-> i], LAMBDA i : i \in keep)
    IN SubSeq([j \in 1..Len(idx) |-> s[idx[j]]], 1, Len(idx))

\* the elements of a set of integers in increasing order
SetToSeq(S) ==
    SubSeq([k \in 1..Cardinality(S) |->
               CHOOSE x \in S : Cardinality({y \in S : y < x}) = k - 1],
           1, Cardinality(S))

\* s.replace(/\s+/g, ' '): every run of white space becomes one space
CollapseWhiteSpace(s) ==
    Pick([i \in 1..Len(s) |-> IF s[i] \in WhiteSpace THEN " " ELSE s[i]],
         {i \in 1..Len(s) : ~(s[i] \in WhiteSpace /\ i > 1 /\ s[i - 1] \in WhiteSpace)})

\* s.replace(/c/g, '') for a single character c
RemoveChar(s, c) == SelectSeq(s, LAMBDA x : x # c)

\* s.includes(sub)
Includes(s, sub) ==
    \E i \in 1..(Len(s) - Len(sub) + 1) : \A j \in 1..Len(sub) : s[i + j - 1] = sub[j]

DigitVal == [c \in Digit |->
              CASE c = "0" -> 0 [] c = "1" -> 1 [] c = "2" -> 2 [] c = "3" -> 3
                [] c = "4" -> 4 [] c = "5" -> 5 [] c = "6" -> 6 [] c = "7" -> 7
                [] c = "8" -> 8 [] c = "9" -> 9]

\* the value of a run of decimal digits
RECURSIVE DigitsValue(_)
DigitsValue(s) ==
    IF s = <<>> THEN 0 ELSE 10 * DigitsValue(SubSeq(s, 1, Len(s) - 1)) + DigitVal[s[Len(s)]]

\* Number(s) for the digit runs of a date token
Number(s) == DigitsValue(s)

NaN == [nan |-> TRUE, v |-> 0]
Num(v) == [nan |-> FALSE, v |-> v]

\* parseFloat on a string without "." or exponent: optional white space, an
\* optional sign, then the longest run of digits; NaN when there is no digit
parseFloat(str) ==
    LET s == TrimStart(str)
        signed == s # <<>> /\ Head(s) \in {"-", "+"}
        body == IF signed THEN Tail(s) ELSE s
        n == RunLength(body, 1, <<DigitC>>, -1)
    IN IF n = 0 THEN NaN
       ELSE Num((IF signed /\ Head(s) = "-" THEN -1 ELSE 1)
                 * DigitsValue(SubSeq(body, 1, n)))

\* str.match(/[-]?[\d.,]+/g): the successive non-overlapping matches, as
\* <<from, to>> position pairs.  A match is a maximal run of [\d.,] together
\* with the "-" right before it, if there is one.
NumberRuns(s) ==
    LET runStarts == SetToSeq({i \in 1..Len(s) :
                        InClass(s[i], NumC) /\ (i = 1 \/ ~InClass(s[i - 1], NumC))})
    IN [k \in 1..Len(runStarts) |->
          LET r == runStarts[k]
          IN <<IF r > 1 /\ s[r - 1] = "-" THEN r - 1 ELSE r,
               r + RunLength(s, r, <<NumC>>, -1) - 1>>]

\* str.replace(/[-]?[\d.,]+/g, ''): what is left outside the matches
RemoveNumberRuns(s) ==
    Pick(s, {i \in 1..Len(s) :
               ~(InClass(s[i], NumC)
                 \/ (s[i] = "-" /\ i < Len(s) /\ InClass(s[i + 1], NumC)))})

(***************************************************************************)
(* Calendar: new Date(year, month - 1, day) in local time                  *)
(***************************************************************************)
IsLeap(y) == (y % 4 = 0 /\ y % 100 # 0) \/ y % 400 = 0
DaysInMonth(y, m) ==
    IF m = 2 THEN (IF IsLeap(y) THEN 29 ELSE 28)
    ELSE IF m \in {4, 6, 9, 11} THEN 30 ELSE 31

\* The Date constructor for 1 <= month <= 12 and 1 <= day <= 31: a day past the
\* end of the month rolls over into the next month; a year 0..99 means 1900 + year.
NewDate(year, month, day) ==
    LET y == IF year <= 99 THEN 1900 + year ELSE year
        dim == DaysInMonth(y, month)
    IN IF day <= dim THEN [year |-> y, month |-> month, day |-> day]
       ELSE [year |-> y, month |-> month + 1, day |-> day - dim]

(***************************************************************************)
(* Credit-statement dialect: the six grammars of parseCreditCardTransaction *)
(***************************************************************************)
LetterSpaceC == Cls(UpperAZ \cup LowerAZ \cup WhiteSpace)
SignedNum(g) == <<Opt(Cls({"-"}), g), Plus(NumC, g)>>
\* (\d{1,2}\/\d{1,2}\/\d{4}) as group g
DateItems(g) == <<Rep(DigitC, 1, 2, g), Ch("/", g), Rep(DigitC, 1, 2, g), Ch("/", g),
                  Rep(DigitC, 4, 4, g)>>
\* (\d{2}\/\d{2}) as group g
DueItems(g) == <<Rep(DigitC, 2, 2, g), Ch("/", g), Rep(DigitC, 2, 2, g)>>
\* (\w+-\d{4}) as group g
PeriodItems(g) == <<Plus(WordC, g), Ch("-", g), Rep(DigitC, 4, 4, g)>>

pattern1 ==
    <<PlusLazy(LetterSpaceC, 1), Plus(SpaceC, 0)>> \o DateItems(2)
    \o <<Plus(SpaceC, 0), PlusLazy(Dot, 3), Plus(SpaceC, 0),
         One(Cls(UpperAZ), 4), Plus(DigitC, 4), Plus(SpaceC, 0),
         Plus(NumC, 5), Plus(SpaceC, 0), Plus(NumC, 6), Plus(SpaceC, 0)>>
    \o DueItems(0) \o <<Plus(SpaceC, 0)>> \o PeriodItems(0)
    \o <<Plus(SpaceC, 0), Plus(NumC, 7)>>

pattern2 ==
    <<PlusLazy(LetterSpaceC, 1)>> \o DateItems(2)
    \o <<PlusLazy(Dot, 3), Opt(SpaceC, 0),
         Ch("T", 4), Opt(Cls(UpperAZ), 4), Star(DigitC, 4),
         Plus(NumC, 5), Plus(NumC, 6)>>
    \o DueItems(7) \o PeriodItems(8) \o <<Plus(NumC, 9)>>

pattern3 ==
    Lit(<<"S", "/", "I">>, 1) \o DateItems(2)
    \o <<PlusLazy(Dot, 3), One(SpaceC, 0), Ch("T", 4), Plus(NumC, 5), Plus(NumC, 6)>>
    \o DueItems(7) \o PeriodItems(8) \o <<Plus(NumC, 9)>>

\* the fourth grammar as its comment describes it, without the signs
UnsignedPattern4 ==
    DateItems(1) \o <<PlusLazy(Dot, 2), One(SpaceC, 0), Ch("T", 3), Plus(NumC, 4),
                      Plus(NumC, 5)>>
    \o DueItems(6) \o PeriodItems(7) \o <<Plus(NumC, 8)>>

pattern4 ==
    DateItems(1) \o <<PlusLazy(Dot, 2), One(SpaceC, 0), Ch("T", 3)>>
    \o SignedNum(4) \o SignedNum(5) \o DueItems(6) \o PeriodItems(7) \o SignedNum(8)

\* the reversal grammar: the same expression as pattern4 in the source
pattern5 ==
    DateItems(1) \o <<PlusLazy(Dot, 2), One(SpaceC, 0), Ch("T", 3)>>
    \o SignedNum(4) \o SignedNum(5) \o DueItems(6) \o PeriodItems(7) \o SignedNum(8)

pattern6 ==
    <<StarLazy(Cls(UpperAZ \cup LowerAZ \cup WhiteSpace \cup {"/"}), 1)>> \o DateItems(2)
    \o <<PlusLazy(Dot, 3), Opt(Cls({"-"}), 4), Item(<<NumC>>, 3, -1, FALSE, 4)>>

patterns == <<pattern1, pattern2, pattern3, pattern4, pattern5, pattern6>>

SinIdentificar == <<"S", "i", "n", " ", "I", "d", "e", "n", "t", "i", "f", "i", "c", "a", "r">>

\* a loop that would keep the last grammar that matches
LastMatch(pats, line, i) ==
    IF {p \in i..Len(pats) : MatchAll(pats[p], line).ok} = {} THEN 0
    ELSE Max({p \in i..Len(pats) : MatchAll(pats[p], line).ok})

\* the loop "for i: match = line.match(patterns[i]); if (match) break": the
\* 1-based index of the grammar kept, 0 when none matches
RECURSIVE FirstMatch(_, _, _)
FirstMatch(pats, line, i) ==
    IF i > Len(pats) THEN 0
    ELSE IF MatchAll(pats[i], line).ok THEN i ELSE FirstMatch(pats, line, i + 1)

\* lines 343-353, the fallback grammar: the amount is the last number of the
\* text after the date, and the description that text without its numbers
FallbackFields(city, dateStr, raw, numbers, sign) ==
    [city |-> IF Len(Trim(city)) = 0 THEN SinIdentificar ELSE city,
     dateStr |-> dateStr,
     rawDescription |->
         IF Len(numbers) > 0 THEN Trim(CollapseWhiteSpace(RemoveNumberRuns(raw))) ELSE raw,
     finalAmount |->
         IF Len(numbers) > 0
         THEN SubSeq(raw, numbers[Len(numbers)][1], numbers[Len(numbers)][2])
         ELSE sign]

\* the groups destructured from the match m of the grammar used (lines 323-353)
MatchFields(pat, line, m, patternUsed) ==
    CASE patternUsed = 1 ->
           [city |-> Group(pat, line, m, 1), dateStr |-> Group(pat, line, m, 2),
            rawDescription |-> Group(pat, line, m, 3), finalAmount |-> Group(pat, line, m, 7)]
      [] patternUsed \in {2, 3} ->
           [city |-> Group(pat, line, m, 1), dateStr |-> Group(pat, line, m, 2),
            rawDescription |-> Group(pat, line, m, 3), finalAmount |-> Group(pat, line, m, 9)]
      [] patternUsed \in {4, 5} ->
           [city |-> SinIdentificar, dateStr |-> Group(pat, line, m, 1),
            rawDescription |-> Group(pat, line, m, 2), finalAmount |-> Group(pat, line, m, 8)]
      [] patternUsed = 6 ->
           FallbackFields(Group(pat, line, m, 1), Group(pat, line, m, 2),
                          Group(pat, line, m, 3), NumberRuns(Group(pat, line, m, 3)),
                          Group(pat, line, m, 4))

ExtractFields(line, patternUsed) ==
    MatchFields(patterns[patternUsed], line, MatchAll(patterns[patternUsed], line),
                patternUsed)

\* dateStr.split('/').map(Number)
SplitDate(dateStr) ==
    LET s1 == CHOOSE i \in 1..Len(dateStr) : dateStr[i] = "/" /\ \A j \in 1..(i - 1) : dateStr[j] # "/"
        s2 == CHOOSE i \in (s1 + 1)..Len(dateStr) : dateStr[i] = "/" /\ \A j \in (s1 + 1)..(i - 1) : dateStr[j] # "/"
    IN [day |-> Number(SubSeq(dateStr, 1, s1 - 1)),
        month |-> Number(SubSeq(dateStr, s1 + 1, s2 - 1)),
        year |-> Number(SubSeq(dateStr, s2 + 1, Len(dateStr)))]

NoDate == [year |-> 0, month |-> 0, day |-> 0]

\* the result of a dialect parser: tx is the RawTransaction returned when valid,
\* and null (valid = FALSE) otherwise
NullResult(patternUsed) ==
    [valid |-> FALSE, patternUsed |-> patternUsed, dateStr |-> <<>>,
     tx |-> [date |-> NoDate, description |-> <<>>, amount |-> 0]]

\* an amount stored with the sign of its token
TokenAmount(amount) == amount

\* line 391: a card movement is a charge
CreditCardAmount(amount) == -amount

\* lines 361-393: the checks on the fields and the transaction returned
CreditCardResult(patternUsed, dateStr, dmy, description, amount) ==
    IF dmy.month < 1 \/ dmy.month > 12 \/ dmy.day < 1 \/ dmy.day > 31
    THEN NullResult(patternUsed)
    ELSE IF Len(description) < 3 THEN NullResult(patternUsed)
    ELSE IF amount.nan \/ amount.v <= 0 THEN NullResult(patternUsed)
    ELSE [valid |-> TRUE, patternUsed |-> patternUsed, dateStr |-> dateStr,
          tx |-> [date |-> NewDate(dmy.year, dmy.month, dmy.day),
                  description |-> description,
                  amount |-> CreditCardAmount(amount.v)]]

\* lines 361-378: the date, the description and the amount read from the fields
CreditCardFields(patternUsed, f) ==
    CreditCardResult(patternUsed, f.dateStr, SplitDate(f.dateStr),
                     CollapseWhiteSpace(Trim(f.rawDescription)),
                     parseFloat(RemoveChar(f.finalAmount, ".")))

CreditCardParse(line, patternUsed) ==
    IF patternUsed = 0 THEN NullResult(0)
    ELSE CreditCardFields(patternUsed, ExtractFields(line, patternUsed))

parseCreditCardTransaction(line) == CreditCardParse(line, FirstMatch(patterns, line, 1))

(***************************************************************************)
(* Noise signatures.  A signature is a pattern, whether it ignores case    *)
(* (the line is then upper-cased and the pattern written in upper case),   *)
(* and whether it is anchored at both ends (^...$) or matches anywhere.    *)
(***************************************************************************)
P(pat, ci, anchored) == [pat |-> pat, ci |-> ci, anchored |-> anchored]

\* pattern.test(line)
TestPattern(p, line) ==
    LET l == IF p.ci THEN toUpperCase(line) ELSE line
    IN IF p.anchored THEN MatchAll(p.pat, l).ok ELSE Search(p.pat, l, FALSE)

\* the unit of (?:\.\d{3})
ThousandsUnit == <<Cls({"."}), DigitC, DigitC, DigitC>>

nonTransactionPatterns ==
    \* /ESTADO DE CUENTA/i
    << P(Lit(<<"E", "S", "T", "A", "D", "O", " ", "D", "E", " ", "C", "U", "E", "N", "T",
         "A">>, 0), TRUE, FALSE),
    \* /CLIENTE ELITE/i
       P(Lit(<<"C", "L", "I", "E", "N", "T", "E", " ", "E", "L", "I", "T", "E">>, 0), TRUE,
         FALSE),
    \* /FRANCISCO BRAVO/i
       P(Lit(<<"F", "R", "A", "N", "C", "I", "S", "C", "O", " ", "B", "R", "A", "V", "O">>,
         0), TRUE, FALSE),
    \* /LIRA \d+/i
       P(Lit(<<"L", "I", "R", "A", " ">>, 0) \o <<Plus(DigitC, 0)>>, TRUE, FALSE),
    \* /Nombre del Titular/i
       P(Lit(<<"N", "O", "M", "B", "R", "E", " ", "D", "E", "L", " ", "T", "I", "T", "U",
         "L", "A", "R">>, 0), TRUE, FALSE),
    \* /Cupon de Pago/i
       P(Lit(<<"C", "U", "P", "O", "N", " ", "D", "E", " ", "P", "A", "G", "O">>, 0), TRUE,
         FALSE),
    \* /N° de Tarjeta/i
       P(Lit(<<"N", "deg", " ", "D", "E", " ", "T", "A", "R", "J", "E", "T", "A">>, 0), TRUE,
         FALSE),
    \* /Pagar Hasta/i
       P(Lit(<<"P", "A", "G", "A", "R", " ", "H", "A", "S", "T", "A">>, 0), TRUE, FALSE),
    \* /Próximo Período/i
       P(Lit(<<"P", "R", "O'", "X", "I", "M", "O", " ", "P", "E", "R", "I'", "O", "D", "O">>,
         0), TRUE, FALSE),
    \* /Fecha Facturación/i
       P(Lit(<<"F", "E", "C", "H", "A", " ", "F", "A", "C", "T", "U", "R", "A", "C", "I",
         "O'", "N">>, 0), TRUE, FALSE),
    \* /CMR Puntos/i
       P(Lit(<<"C", "M", "R", " ", "P", "U", "N", "T", "O", "S">>, 0), TRUE, FALSE),
    \* /Costo Monetario/i
       P(Lit(<<"C", "O", "S", "T", "O", " ", "M", "O", "N", "E", "T", "A", "R", "I", "O">>,
         0), TRUE, FALSE),
    \* /Otros\s+\+?\$\d+/
       P(Lit(<<"O", "t", "r", "o", "s">>, 0) \o <<Plus(SpaceC, 0), Opt(Cls({"+"}), 0),
         Ch("$", 0), Plus(DigitC, 0)>>, FALSE, FALSE),
    \* /^\d{1,2}\/\d{1,2}\/\d{4}\s*$/
       P(DateItems(0) \o <<Star(SpaceC, 0)>>, FALSE, TRUE),
    \* /^\d+\.\d+\s*$/
       P(<<Plus(DigitC, 0), Ch(".", 0), Plus(DigitC, 0), Star(SpaceC, 0)>>, FALSE, TRUE),
    \* /^\d+\s*$/
       P(<<Plus(DigitC, 0), Star(SpaceC, 0)>>, FALSE, TRUE),
    \* /Infórmese sobre las entidades/i
       P(Lit(<<"I", "N", "F", "O'", "R", "M", "E", "S", "E", " ", "S", "O", "B", "R", "E",
         " ", "L", "A", "S", " ", "E", "N", "T", "I", "D", "A", "D", "E", "S">>, 0), TRUE,
         FALSE),
    \* /www\.sbif\.cl/i
       P(Lit(<<"W", "W", "W", ".", "S", "B", "I", "F", ".", "C", "L">>, 0), TRUE, FALSE),
    \* /Dudas sobre tu Estado/i
       P(Lit(<<"D", "U", "D", "A", "S", " ", "S", "O", "B", "R", "E", " ", "T", "U", " ",
         "E", "S", "T", "A", "D", "O">>, 0), TRUE, FALSE),
    \* /bancofalabella\.cl/i
       P(Lit(<<"B", "A", "N", "C", "O", "F", "A", "L", "A", "B", "E", "L", "L", "A", ".",
         "C", "L">>, 0), TRUE, FALSE)>>

isNonTransactionLine(line) ==
    \E i \in 1..Len(nonTransactionPatterns) : TestPattern(nonTransactionPatterns[i], line)

nonTransactionPatternsCurrentAccount ==
    \* /CUENTA CORRIENTE/i
    << P(Lit(<<"C", "U", "E", "N", "T", "A", " ", "C", "O", "R", "R", "I", "E", "N", "T",
         "E">>, 0), TRUE, FALSE),
    \* /B A N C O\s+S A N T A N D E R/i
       P(Lit(<<"B", " ", "A", " ", "N", " ", "C", " ", "O">>, 0) \o <<Plus(SpaceC,
         0)>> \o Lit(<<"S", " ", "A", " ", "N", " ", "T", " ", "A", " ", "N", " ", "D", " ",
         "E", " ", "R">>, 0), TRUE, FALSE),
    \* /ESTADO DE CUENTA/i
       P(Lit(<<"E", "S", "T", "A", "D", "O", " ", "D", "E", " ", "C", "U", "E", "N", "T",
         "A">>, 0), TRUE, FALSE),
    \* /CLIENTE ELITE/i
       P(Lit(<<"C", "L", "I", "E", "N", "T", "E", " ", "E", "L", "I", "T", "E">>, 0), TRUE,
         FALSE),
    \* /Nombre del Titular/i
       P(Lit(<<"N", "O", "M", "B", "R", "E", " ", "D", "E", "L", " ", "T", "I", "T", "U",
         "L", "A", "R">>, 0), TRUE, FALSE),
    \* /Resumen de Comisiones/i
       P(Lit(<<"R", "E", "S", "U", "M", "E", "N", " ", "D", "E", " ", "C", "O", "M", "I",
         "S", "I", "O", "N", "E", "S">>, 0), TRUE, FALSE),
    \* /SIN COMISIONES/i
       P(Lit(<<"S", "I", "N", " ", "C", "O", "M", "I", "S", "I", "O", "N", "E", "S">>, 0),
         TRUE, FALSE),
    \* /MENSAJES/i
       P(Lit(<<"M", "E", "N", "S", "A", "J", "E", "S">>, 0), TRUE, FALSE),
    \* /SR\.CLIENTE/i
       P(Lit(<<"S", "R", ".", "C", "L", "I", "E", "N", "T", "E">>, 0), TRUE, FALSE),
    \* /INFORMESE SOBRE/i
       P(Lit(<<"I", "N", "F", "O", "R", "M", "E", "S", "E", " ", "S", "O", "B", "R", "E">>,
         0), TRUE, FALSE),
    \* /WWW\.CMFCHILE\.CL/i
       P(Lit(<<"W", "W", "W", ".", "C", "M", "F", "C", "H", "I", "L", "E", ".", "C", "L">>,
         0), TRUE, FALSE),
    \* /INFORMACION DE CUENTA/i
       P(Lit(<<"I", "N", "F", "O", "R", "M", "A", "C", "I", "O", "N", " ", "D", "E", " ",
         "C", "U", "E", "N", "T", "A">>, 0), TRUE, FALSE),
    \* /SALDO INICIAL/i
       P(Lit(<<"S", "A", "L", "D", "O", " ", "I", "N", "I", "C", "I", "A", "L">>, 0), TRUE,
         FALSE),
    \* /DEPOSITOS/i
       P(Lit(<<"D", "E", "P", "O", "S", "I", "T", "O", "S">>, 0), TRUE, FALSE),
    \* /OTROS ABONOS/i
       P(Lit(<<"O", "T", "R", "O", "S", " ", "A", "B", "O", "N", "O", "S">>, 0), TRUE,
         FALSE),
    \* /CHEQUES/i
       P(Lit(<<"C", "H", "E", "Q", "U", "E", "S">>, 0), TRUE, FALSE),
    \* /OTROS CARGOS/i
       P(Lit(<<"O", "T", "R", "O", "S", " ", "C", "A", "R", "G", "O", "S">>, 0), TRUE,
         FALSE),
    \* /IMPUESTOS/i
       P(Lit(<<"I", "M", "P", "U", "E", "S", "T", "O", "S">>, 0), TRUE, FALSE),
    \* /SALDO FINAL/i
       P(Lit(<<"S", "A", "L", "D", "O", " ", "F", "I", "N", "A", "L">>, 0), TRUE, FALSE),
    \* /CUPO APROBADO/i
       P(Lit(<<"C", "U", "P", "O", " ", "A", "P", "R", "O", "B", "A", "D", "O">>, 0), TRUE,
         FALSE),
    \* /FECHA VENCIMIENTO/i
       P(Lit(<<"F", "E", "C", "H", "A", " ", "V", "E", "N", "C", "I", "M", "I", "E", "N",
         "T", "O">>, 0), TRUE, FALSE),
    \* /MONTO UTILIZADO/i
       P(Lit(<<"M", "O", "N", "T", "O", " ", "U", "T", "I", "L", "I", "Z", "A", "D", "O">>,
         0), TRUE, FALSE),
    \* /SALDO DISPONIBLE/i
       P(Lit(<<"S", "A", "L", "D", "O", " ", "D", "I", "S", "P", "O", "N", "I", "B", "L",
         "E">>, 0), TRUE, FALSE),
    \* /INFORMACION DE LINEA/i
       P(Lit(<<"I", "N", "F", "O", "R", "M", "A", "C", "I", "O", "N", " ", "D", "E", " ",
         "L", "I", "N", "E", "A">>, 0), TRUE, FALSE),
    \* /^\d+\.?\d*\s*$/
       P(<<Plus(DigitC, 0), Opt(Cls({"."}), 0), Star(DigitC, 0), Star(SpaceC, 0)>>, FALSE,
         TRUE),
    \* /^\*+$/
       P(<<Plus(Cls({"*"}), 0)>>, FALSE, TRUE),
    \* /^\d{2}\/\d{2}\/\d{4}\s*$/
       P(<<Rep(DigitC, 2, 2, 0), Ch("/", 0), Rep(DigitC, 2, 2, 0), Ch("/", 0), Rep(DigitC, 4,
         4, 0), Star(SpaceC, 0)>>, FALSE, TRUE),
    \* /^\d{1,3}(\.\d{3})*\s*$/
       P(<<Rep(DigitC, 1, 3, 0), Item(ThousandsUnit, 0, -1, FALSE, 0), Star(SpaceC, 0)>>,
         FALSE, TRUE)>>

isNonTransactionLineCurrentAccount(line) ==
    \E i \in 1..Len(nonTransactionPatternsCurrentAccount) :
        TestPattern(nonTransactionPatternsCurrentAccount[i], line)


(***************************************************************************)
(* Running-ledger dialect: parseCurrentAccountTransaction                  *)
(***************************************************************************)
\* (\d{1,2}\/\d{1,2}) as group g
DayMonthItems(g) == <<Rep(DigitC, 1, 2, g), Ch("/", g), Rep(DigitC, 1, 2, g)>>
\* (\d{1,3}(?:\.\d{3})+) as group g
ThousandsItems(g) == <<Rep(DigitC, 1, 3, g), Item(ThousandsUnit, 1, -1, FALSE, g)>>

caPattern1 ==
    DayMonthItems(1)
    \o <<PlusLazy(LetterSpaceC, 2), Plus(DigitC, 3), One(SpaceC, 0), PlusLazy(Dot, 4),
         Star(SpaceC, 0), Plus(DigitC, 5), Star(Dot, 5)>>
    \o ThousandsItems(5)

caPattern2 ==
    DayMonthItems(1) \o <<PlusLazy(LetterSpaceC, 2), PlusLazy(Dot, 3)>> \o ThousandsItems(4)

caPattern3 ==
    DayMonthItems(1) \o <<Plus(LetterSpaceC, 2), PlusLazy(Dot, 3)>> \o ThousandsItems(4)

caPatterns == <<caPattern1, caPattern2, caPattern3>>

\* numberSequence.match(/(\d{1,3}(?:\.\d{3})+)/g): the successive matches, as texts
RECURSIVE ThousandsRuns(_, _)
ThousandsRuns(s, pos) ==
    LET m == Match(ThousandsItems(0), s, pos..(Len(s) + 1), FALSE)
    IN IF pos > Len(s) \/ ~m.ok THEN <<>>
       ELSE <<SubSeq(s, m.start, m.ends[2] - 1)>> \o ThousandsRuns(s, m.ends[2])

\* lines 614-632: the run kept as the amount, from the runs of the number
\* sequence: the last one, unless an earlier one is positive and below the maximum
SelectAmount(numbers) ==
    LET amounts == [i \in 1..Len(numbers) |-> parseFloat(RemoveChar(numbers[i], ".")).v]
        maxAmount == CHOOSE a \in {amounts[i] : i \in 1..Len(numbers)} :
                         \A i \in 1..Len(numbers) : amounts[i] <= a
        hits == {i \in 1..(Len(numbers) - 1) : amounts[i] < maxAmount /\ amounts[i] > 0}
    IN IF Len(numbers) > 1 /\ hits # {}
       THEN numbers[CHOOSE i \in hits : \A j \in hits : i <= j]
       ELSE numbers[Len(numbers)]

expenseKeywords ==
    << <<"T", "R", "A", "S", "P", "A", "S", "O">>,  \* TRASPASO
       <<"P", "A", "G", "O">>,  \* PAGO
       <<"R", "E", "T", "I", "R", "O">>,  \* RETIRO
       <<"C", "O", "M", "I", "S", "I", "O", "N">>,  \* COMISION
       <<"C", "A", "R", "G", "O">>,  \* CARGO
       <<"T", "R", "A", "N", "S", "F", "E", "R", "E", "N", "C", "I", "A">>,  \* TRANSFERENCIA
       <<"G", "I", "R", "O">>,  \* GIRO
       <<"C", "H", "E", "Q", "U", "E">>,  \* CHEQUE
       <<"C", "U", "O", "T", "A">>,  \* CUOTA
       <<"A", "B", "O", "N", "O">>,  \* ABONO
       <<"C", "R", "E", "D", "I", "T", "O">>,  \* CREDITO
       <<"P", "R", "E", "S", "T", "A", "M", "O">>,  \* PRESTAMO
       <<"T", "A", "R", "J", "E", "T", "A">>,  \* TARJETA
       <<"C", "O", "M", "P", "R", "A">>,  \* COMPRA
       <<"D", "E", "B", "I", "T", "O">>,  \* DEBITO
       <<"M", "U", "L", "T", "I", "P", "A", "G", "O">>>>  \* MULTIPAGO

\* the keywords looked for in the description as it was written
IncludesKeywordAsWritten(description) ==
    \E i \in 1..Len(expenseKeywords) : Includes(description, expenseKeywords[i])

\* the first expense keyword the upper-cased description includes decides
isExpenseTransaction(description) ==
    \E i \in 1..Len(expenseKeywords) : Includes(toUpperCase(description), expenseKeywords[i])

\* lines 607-632, the first grammar: the amount is chosen among the runs of
\* the number sequence; without a run the line is given up
LedgerFields(dateStr, description, numbers) ==
    [dateStr |-> dateStr, description |-> description, hasAmount |-> Len(numbers) >= 1,
     amountStr |-> IF Len(numbers) >= 1 THEN SelectAmount(numbers) ELSE <<>>]

\* the groups destructured from the match m of the grammar used (lines 607-646)
MatchFieldsCurrentAccount(pat, line, m, patternUsed) ==
    IF patternUsed = 1
    THEN LedgerFields(Group(pat, line, m, 1), Group(pat, line, m, 4),
                      ThousandsRuns(Group(pat, line, m, 5), 1))
    ELSE [dateStr |-> Group(pat, line, m, 1), description |-> Group(pat, line, m, 3),
          hasAmount |-> TRUE, amountStr |-> Group(pat, line, m, 4)]

\* numberSequence.match(/(\d{1,3}(?:\.\d{3})+)/g) of the first grammar's match m
SequenceRuns(pat, line, m) == ThousandsRuns(Group(pat, line, m, 5), 1)

LedgerRuns(line) == SequenceRuns(caPatterns[1], line, MatchAll(caPatterns[1], line))

ExtractFieldsCurrentAccount(line, patternUsed) ==
    MatchFieldsCurrentAccount(caPatterns[patternUsed], line,
                              MatchAll(caPatterns[patternUsed], line), patternUsed)

\* dateStr.split('/').map(Number) for a day/month token
SplitDayMonth(dateStr) ==
    LET s1 == CHOOSE i \in 1..Len(dateStr) : dateStr[i] = "/"
    IN [day |-> Number(SubSeq(dateStr, 1, s1 - 1)),
        month |-> Number(SubSeq(dateStr, s1 + 1, Len(dateStr)))]

\* lines 655-669: the checks on the fields and the transaction returned; the
\* sign comes from the description
CurrentAccountResult(patternUsed, dateStr, dm, fullDescription, amount, currentYear) ==
    IF dm.month < 1 \/ dm.month > 12 \/ dm.day < 1 \/ dm.day > 31
    THEN NullResult(patternUsed)
    ELSE IF Len(fullDescription) < 3 THEN NullResult(patternUsed)
    ELSE IF amount.nan \/ amount.v <= 0 THEN NullResult(patternUsed)
    ELSE [valid |-> TRUE, patternUsed |-> patternUsed, dateStr |-> dateStr,
          tx |-> [date |-> NewDate(currentYear, dm.month, dm.day),
                  description |-> fullDescription,
                  amount |-> IF isExpenseTransaction(fullDescription)
                             THEN -amount.v ELSE amount.v]]

CurrentAccountFields(patternUsed, f, currentYear) ==
    IF ~f.hasAmount THEN NullResult(patternUsed)
    ELSE CurrentAccountResult(patternUsed, f.dateStr, SplitDayMonth(f.dateStr),
                              Trim(f.description),
                              parseFloat(RemoveChar(f.amountStr, ".")), currentYear)

CurrentAccountParse(line, patternUsed, currentYear) ==
    IF patternUsed = 0 THEN NullResult(0)
    ELSE CurrentAccountFields(patternUsed, ExtractFieldsCurrentAccount(line, patternUsed),
                              currentYear)

\* currentYear is new Date().getFullYear() at the time of the call
parseCurrentAccountTransaction(line, currentYear) ==
    CurrentAccountParse(line, FirstMatch(caPatterns, line, 1), currentYear)

(***************************************************************************)
(* Dialect detection                                                       *)
(***************************************************************************)
currentAccountIndicators ==
    << <<"C", "U", "E", "N", "T", "A", " ", "C", "O", "R", "R", "I", "E", "N", "T", "E">>,  \* CUENTA CORRIENTE
       <<"B", " ", "A", " ", "N", " ", "C", " ", "O", " ", " ", "S", " ", "A", " ", "N", " ", "T", " ", "A", " ", "N", " ", "D", " ", "E", " ", "R">>,  \* B A N C O  S A N T A N D E R
       <<"S", "A", "L", "D", "O", " ", "I", "N", "I", "C", "I", "A", "L">>,  \* SALDO INICIAL
       <<"D", "E", "P", "O", "S", "I", "T", "O", "S">>,  \* DEPOSITOS
       <<"O", "T", "R", "O", "S", " ", "A", "B", "O", "N", "O", "S">>,  \* OTROS ABONOS
       <<"C", "H", "E", "Q", "U", "E", "S">>,  \* CHEQUES
       <<"O", "T", "R", "O", "S", " ", "C", "A", "R", "G", "O", "S">>,  \* OTROS CARGOS
       <<"I", "N", "F", "O", "R", "M", "A", "C", "I", "O", "N", " ", "D", "E", " ", "C", "U", "E", "N", "T", "A", " ", "C", "O", "R", "R", "I", "E", "N", "T", "E">>>>  \* INFORMACION DE CUENTA CORRIENTE

creditCardIndicators ==
    << <<"E", "S", "T", "A", "D", "O", " ", "D", "E", " ", "C", "U", "E", "N", "T", "A">>,  \* ESTADO DE CUENTA
       <<"T", "A", "R", "J", "E", "T", "A", " ", "D", "E", " ", "C", "R", "E", "D", "I", "T", "O">>,  \* TARJETA DE CREDITO
       <<"C", "M", "R", " ", "P", "U", "N", "T", "O", "S">>,  \* CMR PUNTOS
       <<"C", "O", "S", "T", "O", " ", "M", "O", "N", "E", "T", "A", "R", "I", "O">>,  \* COSTO MONETARIO
       <<"C", "L", "I", "E", "N", "T", "E", " ", "E", "L", "I", "T", "E">>,  \* CLIENTE ELITE
       <<"F", "A", "L", "A", "B", "E", "L", "L", "A">>>>  \* FALABELLA

\* the number of indicators the text includes
Score(upperText, indicators) ==
    Cardinality({i \in 1..Len(indicators) : Includes(upperText, indicators[i])})

\* the comparison of the scores with the tie given to the running ledger
DetectWithTies(text) ==
    IF Score(toUpperCase(text), currentAccountIndicators)
          >= Score(toUpperCase(text), creditCardIndicators)
    THEN "current_account" ELSE "credit_card"

detectPDFType(text) ==
    LET upperText == toUpperCase(text)
        currentAccountScore == Score(upperText, currentAccountIndicators)
        creditCardScore == Score(upperText, creditCardIndicators)
    IN IF currentAccountScore > creditCardScore THEN "current_account" ELSE "credit_card"


\* ---------------------------------------------------------------------------
\* Amounts.  A JavaScript number x is kept exactly, as the integer numerator n
\* of x = n / unit, where unit is the number of minor units per currency unit
\* of the document at hand (1 for the PDF dialects, whose amounts are whole
\* pesos).  Arithmetic is exact; binary floating-point error is not modelled.
Abs(n) == IF n < 0 THEN -n ELSE n

\* Math.round(num / den) for den > 0: the nearest integer, ties towards +oo.
MathRound(num, den) ==
    LET q == num \div den
        r == num % den
    IN IF 2 * r >= den THEN q + 1 ELSE q

\* Math.round(x * 100) / 100, the result counted in hundredths.
RoundCents(n, unit) == MathRound(100 * n, unit)

\* Math.round((a / b) * 100 * 100) / 100 for b > 0, counted in hundredths;
\* long division keeps the intermediate values small.
RECURSIVE LongDivision(_, _, _, _)
LongDivision(q, r, den, digits) ==
    IF digits = 0 THEN [q |-> q, r |-> r]
    ELSE LongDivision(10 * q + (10 * r) \div den, (10 * r) % den, den, digits - 1)

RoundPercent(a, b) ==
    LET d == LongDivision(a \div b, a % b, b, 4)
    IN IF 2 * d.r >= b THEN d.q + 1 ELSE d.q

RECURSIVE SumSeq(_)
SumSeq(s) == IF s = <<>> THEN 0 ELSE Head(s) + SumSeq(Tail(s))

\* String(n) for an integer n.
RECURSIVE NatToString(_)
NatToString(n) ==
    LET d == CHOOSE c \in Digit : DigitVal[c] = n % 10
    IN IF n < 10 THEN <<d>> ELSE Append(NatToString(n \div 10), d)

NumberToString(n) == IF n < 0 THEN <<"-">> \o NatToString(-n) ELSE NatToString(n)

PadStart(s, width) ==
    [i \in 1..(IF Len(s) < width THEN width ELSE Len(s)) |->
        IF i <= width - Len(s) THEN "0" ELSE s[i - (IF Len(s) < width THEN width - Len(s) ELSE 0)]]

\* Date.prototype.toISOString for a date at local midnight, the server clock
\* being UTC: "YYYY-MM-DDT00:00:00.000Z".
toISOString(date) ==
    PadStart(NatToString(date.year), 4) \o <<"-">> \o
    PadStart(NatToString(date.month), 2) \o <<"-">> \o
    PadStart(NatToString(date.day), 2) \o
    <<"T", "0", "0", ":", "0", "0", ":", "0", "0", ".", "0", "0", "0", "Z">>

\* a key without the separators between its three parts
JoinedKey(transaction) ==
    toISOString(transaction.date) \o transaction.description \o
    NumberToString(transaction.amount)

\* The template literal `${date}_${description}_${amount}`.
DuplicateKey(transaction) ==
    toISOString(transaction.date) \o <<"_">> \o transaction.description \o <<"_">> \o
    NumberToString(transaction.amount)

\* Array.prototype.filter with the set of keys seen so far.
RECURSIVE FilterUnseen(_, _)
FilterUnseen(transactions, seen) ==
    IF transactions = <<>> THEN <<>>
    ELSE LET key == DuplicateKey(Head(transactions))
         IN IF key \in seen
            THEN FilterUnseen(Tail(transactions), seen)
            ELSE <<Head(transactions)>> \o FilterUnseen(Tail(transactions), seen \cup {key})

removeDuplicateTransactions(transactions) == FilterUnseen(transactions, {})

\* ---------------------------------------------------------------------------
\* Categorizer (TypeScript service and, suffixed Js, the JavaScript service).
\* Category names are written without accents.

categoryRules == <<
    [category |-> "Comida y Restaurantes", keywords |-> <<
          <<"S", "U", "P", "E", "R", "M", "E", "R", "C", "A", "D", "O">>,
          <<"J", "U", "M", "B", "O">>, <<"L", "I", "D", "E", "R">>,
          <<"W", "A", "L", "M", "A", "R", "T">>, <<"T", "A", "R", "G", "E", "T">>,
          <<"C", "O", "S", "T", "C", "O">>, <<"R", "E", "S", "T", "A", "U", "R", "A", "N", "T">>,
          <<"M", "C", "D", "O", "N", "A", "L", "D", "S">>, <<"B", "U", "R", "G", "E", "R">>,
          <<"P", "I", "Z", "Z", "A">>, <<"S", "T", "A", "R", "B", "U", "C", "K", "S">>,
          <<"C", "A", "F", "E">>, <<"F", "O", "O", "D">>, <<"D", "I", "N", "I", "N", "G">>,
          <<"K", "I", "T", "C", "H", "E", "N">>, <<"B", "A", "K", "E", "R", "Y">>,
          <<"D", "E", "L", "I">>, <<"G", "R", "O", "C", "E", "R", "Y">>,
          <<"C", "O", "M", "I", "D", "A">>,
          <<"R", "E", "S", "T", "A", "U", "R", "A", "N", "T", "E">>,
          <<"A", "L", "M", "A", "C", "E", "N">>, <<"P", "A", "N", "A", "D", "E", "R", "I", "A">>>>],
    [category |-> "Transporte", keywords |-> <<
          <<"S", "H", "E", "L", "L">>, <<"C", "O", "P", "E", "C">>, <<"E", "X", "X", "O", "N">>,
          <<"B", "P">>, <<"C", "H", "E", "V", "R", "O", "N">>, <<"M", "O", "B", "I", "L">>,
          <<"U", "B", "E", "R">>, <<"L", "Y", "F", "T">>, <<"T", "A", "X", "I">>,
          <<"M", "E", "T", "R", "O">>, <<"B", "U", "S">>, <<"T", "R", "A", "I", "N">>,
          <<"G", "A", "S">>, <<"F", "U", "E", "L">>, <<"P", "A", "R", "K", "I", "N", "G">>,
          <<"T", "O", "L", "L">>, <<"T", "R", "A", "N", "S", "P", "O", "R", "T">>,
          <<"C", "O", "M", "B", "U", "S", "T", "I", "B", "L", "E">>,
          <<"E", "S", "T", "A", "C", "I", "O", "N", "A", "M", "I", "E", "N", "T", "O">>,
          <<"P", "E", "A", "J", "E">>, <<"L", "O", "C", "O", "M", "O", "C", "I", "O", "N">>>>],
    [category |-> "Entretenimiento", keywords |-> <<
          <<"N", "E", "T", "F", "L", "I", "X">>, <<"S", "P", "O", "T", "I", "F", "Y">>,
          <<"A", "M", "A", "Z", "O", "N", " ", "P", "R", "I", "M", "E">>,
          <<"D", "I", "S", "N", "E", "Y">>, <<"H", "U", "L", "U">>,
          <<"C", "I", "N", "E", "M", "A">>, <<"T", "H", "E", "A", "T", "E", "R">>,
          <<"C", "O", "N", "C", "E", "R", "T">>, <<"S", "T", "E", "A", "M">>,
          <<"P", "L", "A", "Y", "S", "T", "A", "T", "I", "O", "N">>, <<"X", "B", "O", "X">>,
          <<"N", "I", "N", "T", "E", "N", "D", "O">>,
          <<"E", "N", "T", "E", "R", "T", "A", "I", "N", "M", "E", "N", "T">>,
          <<"M", "O", "V", "I", "E">>, <<"M", "U", "S", "I", "C">>, <<"C", "I", "N", "E">>,
          <<"T", "E", "A", "T", "R", "O">>, <<"C", "O", "N", "C", "I", "E", "R", "T", "O">>,
          <<"E", "N", "T", "R", "E", "T", "E", "N", "C", "I", "O", "N">>>>],
    [category |-> "Salud y Medicos", keywords |-> <<
          <<"F", "A", "R", "M", "A", "C", "I", "A">>, <<"P", "H", "A", "R", "M", "A", "C", "Y">>,
          <<"C", "V", "S">>, <<"W", "A", "L", "G", "R", "E", "E", "N", "S">>,
          <<"H", "O", "S", "P", "I", "T", "A", "L">>, <<"C", "L", "I", "N", "I", "C", "A">>,
          <<"C", "L", "I", "N", "I", "C">>, <<"D", "O", "C", "T", "O", "R">>,
          <<"M", "E", "D", "I", "C", "A", "L">>, <<"H", "E", "A", "L", "T", "H">>,
          <<"D", "E", "N", "T", "A", "L">>, <<"V", "I", "S", "I", "O", "N">>,
          <<"I", "N", "S", "U", "R", "A", "N", "C", "E">>,
          <<"M", "E", "D", "I", "C", "A", "R", "E">>, <<"C", "O", "N", "S", "U", "L", "T", "A">>,
          <<"M", "E", "D", "I", "C", "O">>, <<"D", "E", "N", "T", "I", "S", "T", "A">>>>],
    [category |-> "Educacion", keywords |-> <<
          <<"U", "N", "I", "V", "E", "R", "S", "I", "D", "A", "D">>,
          <<"U", "N", "I", "V", "E", "R", "S", "I", "T", "Y">>,
          <<"C", "O", "L", "L", "E", "G", "E">>, <<"S", "C", "H", "O", "O", "L">>,
          <<"I", "N", "S", "T", "I", "T", "U", "T", "O">>, <<"T", "U", "I", "T", "I", "O", "N">>,
          <<"E", "D", "U", "C", "A", "T", "I", "O", "N">>, <<"S", "T", "U", "D", "E", "N", "T">>,
          <<"T", "E", "X", "T", "B", "O", "O", "K">>, <<"C", "O", "U", "R", "S", "E">>,
          <<"T", "R", "A", "I", "N", "I", "N", "G">>, <<"C", "O", "L", "E", "G", "I", "O">>,
          <<"E", "S", "C", "U", "E", "L", "A">>>>],
    [category |-> "Compras", keywords |-> <<
          <<"A", "M", "A", "Z", "O", "N">>, <<"E", "B", "A", "Y">>,
          <<"W", "A", "L", "M", "A", "R", "T">>, <<"T", "A", "R", "G", "E", "T">>,
          <<"B", "E", "S", "T", " ", "B", "U", "Y">>,
          <<"A", "P", "P", "L", "E", " ", "S", "T", "O", "R", "E">>, <<"S", "T", "O", "R", "E">>,
          <<"M", "A", "L", "L">>, <<"S", "H", "O", "P", "P", "I", "N", "G">>,
          <<"C", "L", "O", "T", "H", "E", "S">>, <<"F", "A", "S", "H", "I", "O", "N">>,
          <<"E", "L", "E", "C", "T", "R", "O", "N", "I", "C", "S">>,
          <<"T", "I", "E", "N", "D", "A">>, <<"R", "O", "P", "A">>,
          <<"E", "L", "E", "C", "T", "R", "O", "N", "I", "C", "A">>,
          <<"C", "O", "M", "P", "R", "A">>>>],
    [category |-> "Servicios Basicos", keywords |-> <<
          <<"E", "L", "E", "C", "T", "R", "I", "C">>,
          <<"G", "A", "S", " ", "C", "O", "M", "P", "A", "N", "Y">>, <<"W", "A", "T", "E", "R">>,
          <<"I", "N", "T", "E", "R", "N", "E", "T">>, <<"P", "H", "O", "N", "E">>,
          <<"C", "A", "B", "L", "E">>, <<"U", "T", "I", "L", "I", "T", "Y">>,
          <<"P", "O", "W", "E", "R">>, <<"E", "N", "E", "R", "G", "Y">>, <<"L", "U", "Z">>,
          <<"A", "G", "U", "A">>, <<"T", "E", "L", "E", "F", "O", "N", "O">>,
          <<"E", "N", "E", "R", "G", "I", "A">>, <<"S", "E", "R", "V", "I", "C", "I", "O", "S">>>>],
    [category |-> "Bancarios y Finanzas", keywords |-> <<
          <<"B", "A", "N", "K">>, <<"A", "T", "M">>, <<"T", "R", "A", "N", "S", "F", "E", "R">>,
          <<"F", "E", "E">>, <<"I", "N", "T", "E", "R", "E", "S", "T">>,
          <<"C", "R", "E", "D", "I", "T", " ", "C", "A", "R", "D">>, <<"L", "O", "A", "N">>,
          <<"M", "O", "R", "T", "G", "A", "G", "E">>,
          <<"I", "N", "V", "E", "S", "T", "M", "E", "N", "T">>, <<"B", "A", "N", "C", "O">>,
          <<"T", "R", "A", "N", "S", "F", "E", "R", "E", "N", "C", "I", "A">>,
          <<"C", "O", "M", "I", "S", "I", "O", "N">>, <<"I", "N", "T", "E", "R", "E", "S">>,
          <<"C", "R", "E", "D", "I", "T", "O">>, <<"P", "R", "E", "S", "T", "A", "M", "O">>,
          <<"I", "N", "V", "E", "R", "S", "I", "O", "N">>>>],
    [category |-> "Ingresos", keywords |-> <<
          <<"S", "A", "L", "A", "R", "Y">>, <<"P", "A", "Y", "R", "O", "L", "L">>,
          <<"W", "A", "G", "E">>, <<"B", "O", "N", "U", "S">>, <<"R", "E", "F", "U", "N", "D">>,
          <<"D", "I", "V", "I", "D", "E", "N", "D">>,
          <<"I", "N", "T", "E", "R", "E", "S", "T", " ", "E", "A", "R", "N", "E", "D">>,
          <<"C", "A", "S", "H", "B", "A", "C", "K">>, <<"S", "U", "E", "L", "D", "O">>,
          <<"S", "A", "L", "A", "R", "I", "O">>,
          <<"R", "E", "M", "U", "N", "E", "R", "A", "C", "I", "O", "N">>, <<"B", "O", "N", "O">>,
          <<"R", "E", "E", "M", "B", "O", "L", "S", "O">>,
          <<"D", "I", "V", "I", "D", "E", "N", "D", "O">>>>]>>

categoryRulesJs == <<
    [category |-> "Food & Dining", keywords |-> <<
          <<"S", "U", "P", "E", "R", "M", "E", "R", "C", "A", "D", "O">>,
          <<"J", "U", "M", "B", "O">>, <<"L", "I", "D", "E", "R">>,
          <<"W", "A", "L", "M", "A", "R", "T">>, <<"T", "A", "R", "G", "E", "T">>,
          <<"C", "O", "S", "T", "C", "O">>, <<"R", "E", "S", "T", "A", "U", "R", "A", "N", "T">>,
          <<"M", "C", "D", "O", "N", "A", "L", "D", "S">>, <<"B", "U", "R", "G", "E", "R">>,
          <<"P", "I", "Z", "Z", "A">>, <<"S", "T", "A", "R", "B", "U", "C", "K", "S">>,
          <<"C", "A", "F", "E">>, <<"F", "O", "O", "D">>, <<"D", "I", "N", "I", "N", "G">>,
          <<"K", "I", "T", "C", "H", "E", "N">>, <<"B", "A", "K", "E", "R", "Y">>,
          <<"D", "E", "L", "I">>, <<"G", "R", "O", "C", "E", "R", "Y">>>>],
    [category |-> "Transportation", keywords |-> <<
          <<"S", "H", "E", "L", "L">>, <<"C", "O", "P", "E", "C">>, <<"E", "X", "X", "O", "N">>,
          <<"B", "P">>, <<"C", "H", "E", "V", "R", "O", "N">>, <<"M", "O", "B", "I", "L">>,
          <<"U", "B", "E", "R">>, <<"L", "Y", "F", "T">>, <<"T", "A", "X", "I">>,
          <<"M", "E", "T", "R", "O">>, <<"B", "U", "S">>, <<"T", "R", "A", "I", "N">>,
          <<"G", "A", "S">>, <<"F", "U", "E", "L">>, <<"P", "A", "R", "K", "I", "N", "G">>,
          <<"T", "O", "L", "L">>, <<"T", "R", "A", "N", "S", "P", "O", "R", "T">>>>],
    [category |-> "Entertainment", keywords |-> <<
          <<"N", "E", "T", "F", "L", "I", "X">>, <<"S", "P", "O", "T", "I", "F", "Y">>,
          <<"A", "M", "A", "Z", "O", "N", " ", "P", "R", "I", "M", "E">>,
          <<"D", "I", "S", "N", "E", "Y">>, <<"H", "U", "L", "U">>,
          <<"C", "I", "N", "E", "M", "A">>, <<"T", "H", "E", "A", "T", "E", "R">>,
          <<"C", "O", "N", "C", "E", "R", "T">>, <<"S", "T", "E", "A", "M">>,
          <<"P", "L", "A", "Y", "S", "T", "A", "T", "I", "O", "N">>, <<"X", "B", "O", "X">>,
          <<"N", "I", "N", "T", "E", "N", "D", "O">>,
          <<"E", "N", "T", "E", "R", "T", "A", "I", "N", "M", "E", "N", "T">>,
          <<"M", "O", "V", "I", "E">>, <<"M", "U", "S", "I", "C">>>>],
    [category |-> "Health & Medical", keywords |-> <<
          <<"F", "A", "R", "M", "A", "C", "I", "A">>, <<"P", "H", "A", "R", "M", "A", "C", "Y">>,
          <<"C", "V", "S">>, <<"W", "A", "L", "G", "R", "E", "E", "N", "S">>,
          <<"H", "O", "S", "P", "I", "T", "A", "L">>, <<"C", "L", "I", "N", "I", "C", "A">>,
          <<"C", "L", "I", "N", "I", "C">>, <<"D", "O", "C", "T", "O", "R">>,
          <<"M", "E", "D", "I", "C", "A", "L">>, <<"H", "E", "A", "L", "T", "H">>,
          <<"D", "E", "N", "T", "A", "L">>, <<"V", "I", "S", "I", "O", "N">>,
          <<"I", "N", "S", "U", "R", "A", "N", "C", "E">>,
          <<"M", "E", "D", "I", "C", "A", "R", "E">>>>],
    [category |-> "Education", keywords |-> <<
          <<"U", "N", "I", "V", "E", "R", "S", "I", "D", "A", "D">>,
          <<"U", "N", "I", "V", "E", "R", "S", "I", "T", "Y">>,
          <<"C", "O", "L", "L", "E", "G", "E">>, <<"S", "C", "H", "O", "O", "L">>,
          <<"I", "N", "S", "T", "I", "T", "U", "T", "O">>, <<"T", "U", "I", "T", "I", "O", "N">>,
          <<"E", "D", "U", "C", "A", "T", "I", "O", "N">>, <<"S", "T", "U", "D", "E", "N", "T">>,
          <<"T", "E", "X", "T", "B", "O", "O", "K">>, <<"C", "O", "U", "R", "S", "E">>,
          <<"T", "R", "A", "I", "N", "I", "N", "G">>>>],
    [category |-> "Shopping", keywords |-> <<
          <<"A", "M", "A", "Z", "O", "N">>, <<"E", "B", "A", "Y">>,
          <<"W", "A", "L", "M", "A", "R", "T">>, <<"T", "A", "R", "G", "E", "T">>,
          <<"B", "E", "S", "T", " ", "B", "U", "Y">>,
          <<"A", "P", "P", "L", "E", " ", "S", "T", "O", "R", "E">>, <<"S", "T", "O", "R", "E">>,
          <<"M", "A", "L", "L">>, <<"S", "H", "O", "P", "P", "I", "N", "G">>,
          <<"C", "L", "O", "T", "H", "E", "S">>, <<"F", "A", "S", "H", "I", "O", "N">>,
          <<"E", "L", "E", "C", "T", "R", "O", "N", "I", "C", "S">>>>],
    [category |-> "Utilities", keywords |-> <<
          <<"E", "L", "E", "C", "T", "R", "I", "C">>,
          <<"G", "A", "S", " ", "C", "O", "M", "P", "A", "N", "Y">>, <<"W", "A", "T", "E", "R">>,
          <<"I", "N", "T", "E", "R", "N", "E", "T">>, <<"P", "H", "O", "N", "E">>,
          <<"C", "A", "B", "L", "E">>, <<"U", "T", "I", "L", "I", "T", "Y">>,
          <<"P", "O", "W", "E", "R">>, <<"E", "N", "E", "R", "G", "Y">>>>],
    [category |-> "Banking & Finance", keywords |-> <<
          <<"B", "A", "N", "K">>, <<"A", "T", "M">>, <<"T", "R", "A", "N", "S", "F", "E", "R">>,
          <<"F", "E", "E">>, <<"I", "N", "T", "E", "R", "E", "S", "T">>,
          <<"C", "R", "E", "D", "I", "T", " ", "C", "A", "R", "D">>, <<"L", "O", "A", "N">>,
          <<"M", "O", "R", "T", "G", "A", "G", "E">>,
          <<"I", "N", "V", "E", "S", "T", "M", "E", "N", "T">>>>],
    [category |-> "Income", keywords |-> <<
          <<"S", "A", "L", "A", "R", "Y">>, <<"P", "A", "Y", "R", "O", "L", "L">>,
          <<"W", "A", "G", "E">>, <<"B", "O", "N", "U", "S">>, <<"R", "E", "F", "U", "N", "D">>,
          <<"D", "I", "V", "I", "D", "E", "N", "D">>,
          <<"I", "N", "T", "E", "R", "E", "S", "T", " ", "E", "A", "R", "N", "E", "D">>,
          <<"C", "A", "S", "H", "B", "A", "C", "K">>>>]>>

\* for (const [category, keywords] of Object.entries(rules)) for (const keyword
\* of keywords) if (upperDesc.includes(keyword)) return category;
RECURSIVE ClassifyFrom(_, _, _, _)
ClassifyFrom(rules, otherwise, upperDesc, i) ==
    IF i > Len(rules) THEN otherwise
    ELSE IF \E k \in 1..Len(rules[i].keywords) : Includes(upperDesc, rules[i].keywords[k])
         THEN rules[i].category
         ELSE ClassifyFrom(rules, otherwise, upperDesc, i + 1)

\* the table searched in the description as it was written
ClassifyAsWritten(description) ==
    ClassifyFrom(categoryRules, "Otros", description, 1)

classifyTransaction(description) ==
    ClassifyFrom(categoryRules, "Otros", toUpperCase(description), 1)

classifyTransactionJs(description) ==
    ClassifyFrom(categoryRulesJs, "Other", toUpperCase(description), 1)

\* One element of transactions.map(...) in categorizeTransactions; id is the
\* value generateTransactionId returned for it.
CategorizeOne(transaction, category, id) ==
    [id |-> id,
     date |-> transaction.date,
     description |-> transaction.description,
     amount |-> Abs(transaction.amount),
     category |-> category,
     type |-> IF transaction.amount >= 0 THEN "income" ELSE "expense",
     originalAmount |-> transaction.amount]

categorizeTransactions(transactions, ids) ==
    [i \in 1..Len(transactions) |->
        CategorizeOne(transactions[i], classifyTransaction(transactions[i].description), ids[i])]

categorizeTransactionsJs(transactions, ids) ==
    [i \in 1..Len(transactions) |->
        CategorizeOne(transactions[i], classifyTransactionJs(transactions[i].description), ids[i])]

\* ---------------------------------------------------------------------------
\* Category statistics.  A percentage (amount / total) * 100 is kept as the
\* exact fraction [num, den]: its value is 100 * num / den.
RECURSIVE InsertionOrder(_, _)
InsertionOrder(transactions, seen) ==
    IF transactions = <<>> THEN <<>>
    ELSE IF Head(transactions).category \in seen
         THEN InsertionOrder(Tail(transactions), seen)
         ELSE <<Head(transactions).category>>
                \o InsertionOrder(Tail(transactions), seen \cup {Head(transactions).category})

Amounts(transactions) == [i \in 1..Len(transactions) |-> transactions[i].amount]

\* a share taken of the total plus the amount itself
ShareOfMore(amount, total) ==
    IF total > 0 THEN [num |-> amount, den |-> total + amount] ELSE [num |-> 0, den |-> 1]

Percentage(amount, total) ==
    IF total > 0 THEN [num |-> amount, den |-> total] ELSE [num |-> 0, den |-> 1]

\* percentage > threshold
PercentageAbove(percentage, threshold) ==
    100 * percentage.num > threshold * percentage.den

\* Array.prototype.sort((a, b) => b.amount - a.amount), which is stable
RECURSIVE InsertByAmount(_, _)
InsertByAmount(sorted, x) ==
    IF sorted = <<>> THEN <<x>>
    ELSE IF Head(sorted).amount >= x.amount
         THEN <<Head(sorted)>> \o InsertByAmount(Tail(sorted), x)
         ELSE <<x>> \o sorted

RECURSIVE SortByAmount(_)
SortByAmount(s) ==
    IF s = <<>> THEN <<>>
    ELSE InsertByAmount(SortByAmount(SubSeq(s, 1, Len(s) - 1)), s[Len(s)])

NumberOfColors == 10

\* amount is counted in hundredths (it is rounded to 2 decimals)
getCategoryStats(transactions, unit) ==
    LET expenseTransactions == SelectSeq(transactions, LAMBDA t : t.type = "expense")
        totalExpenses == SumSeq(Amounts(expenseTransactions))
        names == InsertionOrder(expenseTransactions, {})
        Of(name) == SelectSeq(expenseTransactions, LAMBDA t : t.category = name)
    IN SortByAmount([index \in 1..Len(names) |->
         [name |-> names[index],
          amount |-> RoundCents(SumSeq(Amounts(Of(names[index]))), unit),
          percentage |-> Percentage(SumSeq(Amounts(Of(names[index]))), totalExpenses),
          color |-> (index - 1) % NumberOfColors,
          transactionCount |-> Len(Of(names[index]))]])

\* amount is the unrounded total, counted in minor units
getCategoryStatsJs(transactions) ==
    LET expenseTransactions == SelectSeq(transactions, LAMBDA t : t.type = "expense")
        names == InsertionOrder(expenseTransactions, {})
        Of(name) == SelectSeq(expenseTransactions, LAMBDA t : t.category = name)
        totalExpenses == SumSeq([i \in 1..Len(names) |-> SumSeq(Amounts(Of(names[i])))])
    IN SortByAmount([index \in 1..Len(names) |->
         [name |-> names[index],
          amount |-> SumSeq(Amounts(Of(names[index]))),
          percentage |-> Percentage(SumSeq(Amounts(Of(names[index]))), totalExpenses),
          color |-> names[index]]])

\* ---------------------------------------------------------------------------
\* Analysis.  totalIncome, totalExpenses, totalSavings and
\* averageTransactionAmount are counted in hundredths of the currency unit,
\* savingsRate in hundredths of a percent.
EmptyAnalysis ==
    [totalIncome |-> 0, totalExpenses |-> 0, totalSavings |-> 0, savingsRate |-> 0,
     categories |-> <<>>, transactionCount |-> 0, averageTransactionAmount |-> 0]

\* savings taken as the sum of income and expenses
Turnover(income, expenses) == income + expenses

\* const savings = income - expenses
Savings(income, expenses) == income - expenses

Analysis(signed, categories, unit) ==
    LET income == SumSeq(SelectSeq(signed, LAMBDA a : a > 0))
        expenses == Abs(SumSeq(SelectSeq(signed, LAMBDA a : a < 0)))
        savings == Savings(income, expenses)
    IN [totalIncome |-> RoundCents(income, unit),
        totalExpenses |-> RoundCents(expenses, unit),
        totalSavings |-> RoundCents(savings, unit),
        savingsRate |-> IF income > 0 THEN RoundPercent(savings, income) ELSE 0,
        categories |-> categories,
        transactionCount |-> Len(signed),
        averageTransactionAmount |->
            MathRound(100 * SumSeq([i \in 1..Len(signed) |-> Abs(signed[i])]),
                      unit * Len(signed))]

\* income and expenses are taken from originalAmount
generateAnalysis(transactions, unit) ==
    IF Len(transactions) = 0 THEN EmptyAnalysis
    ELSE Analysis([i \in 1..Len(transactions) |-> transactions[i].originalAmount],
                  getCategoryStats(transactions, unit), unit)

\* income and expenses are taken from amount
generateAnalysisJs(transactions, unit) ==
    IF Len(transactions) = 0 THEN EmptyAnalysis
    ELSE Analysis([i \in 1..Len(transactions) |-> transactions[i].amount],
                  getCategoryStatsJs(transactions), unit)

\* ---------------------------------------------------------------------------
\* Recommendations, as the list of pushed entries (texts left out).
Recommendation(id, type, priority) == [id |-> id, type |-> type, priority |-> priority]

Take(s, n) == SubSeq(s, 1, IF Len(s) < n THEN Len(s) ELSE n)

RECURSIVE Flatten(_)
Flatten(ss) == IF ss = <<>> THEN <<>> ELSE Head(ss) \o Flatten(Tail(ss))

SavingsRateTarget == 2000
FoodThreshold == 15
TransportThreshold == 20
EntertainmentThreshold == 10
TopCategories == 3
ManyTransactions == 100

\* every alert for every entry, whatever its name and its share
AllAlerts(category) ==
    <<Recommendation("food_dining_high", "gastos", "medium"),
      Recommendation("transport_high", "gastos", "medium"),
      Recommendation("entertainment_high", "gastos", "low")>>

\* the three checks made of one entry of topCategories.forEach
CategoryAlerts(category) ==
    (IF category.name = "Comida y Restaurantes" /\ PercentageAbove(category.percentage, FoodThreshold)
     THEN <<Recommendation("food_dining_high", "gastos", "medium")>> ELSE <<>>)
    \o
    (IF category.name = "Transporte" /\ PercentageAbove(category.percentage, TransportThreshold)
     THEN <<Recommendation("transport_high", "gastos", "medium")>> ELSE <<>>)
    \o
    (IF category.name = "Entretenimiento"
        /\ PercentageAbove(category.percentage, EntertainmentThreshold)
     THEN <<Recommendation("entertainment_high", "gastos", "low")>> ELSE <<>>)

\* the savings branch without its praise
RecommendWithoutPraise(transactions, metrics) ==
    (IF metrics.savingsRate < SavingsRateTarget
     THEN <<Recommendation("savings_rate_low", "ahorros", "high")>> ELSE <<>>)
    \o
    Flatten([i \in 1..Len(Take(metrics.categories, TopCategories)) |->
                CategoryAlerts(metrics.categories[i])])
    \o
    (IF metrics.transactionCount > ManyTransactions
     THEN <<Recommendation("transaction_frequency_high", "habitos", "low")>> ELSE <<>>)

\* the alerts looked for in every entry of the breakdown
RecommendForEveryCategory(transactions, metrics) ==
    (IF metrics.savingsRate < SavingsRateTarget
     THEN <<Recommendation("savings_rate_low", "ahorros", "high")>>
     ELSE <<Recommendation("savings_rate_good", "felicitaciones", "low")>>)
    \o
    Flatten([i \in 1..Len(metrics.categories) |-> CategoryAlerts(metrics.categories[i])])
    \o
    (IF metrics.transactionCount > ManyTransactions
     THEN <<Recommendation("transaction_frequency_high", "habitos", "low")>> ELSE <<>>)

generateRecommendations(transactions, metrics) ==
    (IF metrics.savingsRate < SavingsRateTarget
     THEN <<Recommendation("savings_rate_low", "ahorros", "high")>>
     ELSE <<Recommendation("savings_rate_good", "felicitaciones", "low")>>)
    \o
    Flatten([i \in 1..Len(Take(metrics.categories, TopCategories)) |->
                CategoryAlerts(metrics.categories[i])])
    \o
    (IF metrics.transactionCount > ManyTransactions
     THEN <<Recommendation("transaction_frequency_high", "habitos", "low")>> ELSE <<>>)

CategoryAlertsJs(category) ==
    (IF category.name = "Food & Dining" /\ PercentageAbove(category.percentage, FoodThreshold)
     THEN <<Recommendation("food_dining_high", "savings", "medium")>> ELSE <<>>)
    \o
    (IF category.name = "Transportation"
        /\ PercentageAbove(category.percentage, TransportThreshold)
     THEN <<Recommendation("transportation_high", "savings", "medium")>> ELSE <<>>)
    \o
    (IF category.name = "Entertainment"
        /\ PercentageAbove(category.percentage, EntertainmentThreshold)
     THEN <<Recommendation("entertainment_high", "savings", "low")>> ELSE <<>>)

EmergencyFundMonths == 6
MaxRecommendationsJs == 6

generateRecommendationsJs(transactions, metrics) ==
    Take(
      (IF metrics.savingsRate < SavingsRateTarget
       THEN <<Recommendation("savings_rate_low", "savings", "high")>> ELSE <<>>)
      \o
      Flatten([i \in 1..Len(Take(metrics.categories, TopCategories)) |->
                  CategoryAlertsJs(metrics.categories[i])])
      \o
      (IF metrics.savingsRate > SavingsRateTarget
       THEN <<Recommendation("investment_opportunity", "investment", "high")>>
            \o (IF metrics.totalSavings > metrics.totalExpenses * EmergencyFundMonths
                THEN <<Recommendation("index_fund_investment", "investment", "medium")>>
                ELSE <<>>)
       ELSE <<>>)
      \o
      <<Recommendation("budget_tracking", "budget", "medium")>>,
      MaxRecommendationsJs)

\* ---------------------------------------------------------------------------
\* The Recommendations component of the client: the three lists it filters
\* from its recommendations by type, each rendered as one card, in this order
savingsRecommendations(recs) == SelectSeq(recs, LAMBDA r : r.type = "savings")
investmentRecommendations(recs) == SelectSeq(recs, LAMBDA r : r.type = "investment")
budgetRecommendations(recs) == SelectSeq(recs, LAMBDA r : r.type = "budget")

Recommendations(recs) ==
    savingsRecommendations(recs) \o investmentRecommendations(recs)
    \o budgetRecommendations(recs)

\* ---------------------------------------------------------------------------
\* Spreadsheet and CSV rows.  A row is the sequence of its <<key, cell>>
\* fields in key order (Object.keys); a cell is a number [t |-> "number", n]
\* (n the numerator over unit) or a text [t |-> "string", s, asDate], asDate
\* being the calendar date new Date(s) reads from the text, NoDate when it
\* reads none (Invalid Date).
LowerOf == [c \in {UpperOf[x] : x \in DOMAIN UpperOf} |->
              CHOOSE x \in DOMAIN UpperOf : UpperOf[x] = c]
toLowerCase(s) ==
    SubSeq([i \in 1..Len(s) |-> IF s[i] \in DOMAIN LowerOf THEN LowerOf[s[i]] ELSE s[i]],
           1, Len(s))

NumberCell(n) == [t |-> "number", n |-> n, s |-> <<>>, asDate |-> NoDate]
StringCell(s, asDate) == [t |-> "string", n |-> 0, s |-> s, asDate |-> asDate]

dateNames == <<
    <<"d", "a", "t", "e">>,
    <<"t", "r", "a", "n", "s", "a", "c", "t", "i", "o", "n", "_", "d", "a", "t", "e">>,
    <<"p", "o", "s", "t", "e", "d", "_", "d", "a", "t", "e">>,
    <<"f", "e", "c", "h", "a">>,
    <<"f", "e", "c", "h", "a", "_", "t", "r", "a", "n", "s", "a", "c", "c", "i", "o", "n">>,
    <<"p", "r", "o", "c", "e", "s", "s", "i", "n", "g", "_", "d", "a", "t", "e">>,
    <<"e", "f", "f", "e", "c", "t", "i", "v", "e", "_", "d", "a", "t", "e">>,
    <<"t", "r", "a", "n", "s", "_", "d", "a", "t", "e">>,
    <<"t", "r", "a", "n", "s", "a", "c", "t", "i", "o", "n", " ", "d", "a", "t", "e">>>>

descNames == <<
    <<"d", "e", "s", "c", "r", "i", "p", "t", "i", "o", "n">>,
    <<"m", "e", "m", "o">>,
    <<"d", "e", "t", "a", "i", "l", "s">>,
    <<"d", "e", "s", "c", "r", "i", "p", "c", "i", "o", "n">>,
    <<"c", "o", "n", "c", "e", "p", "t", "o">>,
    <<"t", "r", "a", "n", "s", "a", "c", "t", "i", "o", "n", "_", "d", "e", "s", "c", "r", "i", "p", "t", "i", "o", "n">>,
    <<"d", "e", "t", "a", "i", "l">>,
    <<"r", "e", "f", "e", "r", "e", "n", "c", "e">>,
    <<"r", "e", "f", "e", "r", "e", "n", "c", "i", "a">>>>

amountNames == <<
    <<"a", "m", "o", "u", "n", "t">>,
    <<"d", "e", "b", "i", "t">>,
    <<"c", "r", "e", "d", "i", "t">>,
    <<"m", "o", "n", "t", "o">>,
    <<"v", "a", "l", "o", "r">>,
    <<"i", "m", "p", "o", "r", "t", "e">>,
    <<"t", "r", "a", "n", "s", "a", "c", "t", "i", "o", "n", "_", "a", "m", "o", "u", "n", "t">>,
    <<"d", "e", "b", "i", "t", "s">>,
    <<"c", "r", "e", "d", "i", "t", "s">>,
    <<"b", "a", "l", "a", "n", "c", "e", "_", "c", "h", "a", "n", "g", "e">>>>

debitNames == <<
    <<"d", "e", "b", "i", "t">>,
    <<"d", "e", "b", "i", "t", "s">>,
    <<"d", "e", "b", "i", "t", "_", "a", "m", "o", "u", "n", "t">>,
    <<"d", "e", "b", "e">>,
    <<"c", "a", "r", "g", "o">>>>

creditNames == <<
    <<"c", "r", "e", "d", "i", "t">>,
    <<"c", "r", "e", "d", "i", "t", "s">>,
    <<"c", "r", "e", "d", "i", "t", "_", "a", "m", "o", "u", "n", "t">>,
    <<"h", "a", "b", "e", "r">>,
    <<"a", "b", "o", "n", "o">>>>

\* the position in row of the key findColumn returns, 0 for null
RECURSIVE FindColumnFrom(_, _, _)
FindColumnFrom(row, possibleNames, i) ==
    IF i > Len(possibleNames) THEN 0
    ELSE LET hits == {k \in 1..Len(row) :
                        Includes(toLowerCase(row[k][1]), toLowerCase(possibleNames[i]))}
         IN IF hits # {} THEN CHOOSE k \in hits : \A j \in hits : k <= j
            ELSE FindColumnFrom(row, possibleNames, i + 1)

findColumn(row, possibleNames) == FindColumnFrom(row, possibleNames, 1)

\* the civil date of a day count since 1970-01-01
DateOfDays(days) ==
    LET z == days + 719468
        era == z \div 146097
        doe == z - era * 146097
        yoe == (doe - doe \div 1460 + doe \div 36524 - doe \div 146096) \div 365
        doy == doe - (365 * yoe + yoe \div 4 - yoe \div 100)
        mp == (5 * doy + 2) \div 153
        m == IF mp < 10 THEN mp + 3 ELSE mp - 9
    IN [year |-> yoe + era * 400 + (IF m <= 2 THEN 1 ELSE 0),
        month |-> m,
        day |-> doy - (153 * mp + 2) \div 5 + 1]

ExcelEpochOffset == 25569
MillisPerDay == 86400000

\* parseFloat on a text that may hold one decimal point; the fraction is cut
\* to the precision of unit
parseFloatDecimal(str, unit) ==
    LET whole == parseFloat(str)
        s == TrimStart(str)
        signed == s # <<>> /\ Head(s) \in {"-", "+"}
        body == IF signed THEN Tail(s) ELSE s
        n == RunLength(body, 1, <<DigitC>>, -1)
        hasPoint == n < Len(body) /\ body[n + 1] = "."
        f == IF hasPoint THEN RunLength(body, n + 2, <<DigitC>>, 3) ELSE 0
        scale == IF f = 0 THEN 1 ELSE IF f = 1 THEN 10 ELSE IF f = 2 THEN 100 ELSE 1000
        frac == (DigitsValue(SubSeq(body, n + 2, n + 1 + f)) * unit) \div scale
        negative == signed /\ Head(s) = "-"
    IN IF n = 0 /\ f = 0 THEN NaN
       ELSE Num((IF negative THEN -1 ELSE 1)
                 * ((IF n = 0 THEN 0 ELSE Abs(whole.v)) * unit + frac))

\* String(value), with value || fallback first where the code has it; the
\* text of a number is not spelled out: CleanNumber reads it back
Falsy(cell) == (cell.t = "number" /\ cell.n = 0) \/ (cell.t = "string" /\ cell.s = <<>>)

\* parseFloat(String(value).replace(/[$,\s]/g, ''))
CleanNumber(cell, unit) ==
    IF cell.t = "number" THEN Num(cell.n)
    ELSE parseFloatDecimal(SelectSeq(cell.s, LAMBDA c : c \notin {"$", ","} \cup WhiteSpace), unit)

DateKey(date) == date.year * 10000 + date.month * 100 + date.day

\* Array.prototype.sort((a, b) => new Date(b.date) - new Date(a.date)), stable
RECURSIVE InsertByDate(_, _)
InsertByDate(sorted, x) ==
    IF sorted = <<>> THEN <<x>>
    ELSE IF DateKey(Head(sorted).date) >= DateKey(x.date)
         THEN <<Head(sorted)>> \o InsertByDate(Tail(sorted), x)
         ELSE <<x>> \o sorted

RECURSIVE SortByDate(_)
SortByDate(s) ==
    IF s = <<>> THEN <<>>
    ELSE InsertByDate(SortByDate(SubSeq(s, 1, Len(s) - 1)), s[Len(s)])

\* String(value) of a description cell (numbers: whole values only)
CellText(cell, unit) == IF cell.t = "number" THEN NumberToString(cell.n \div unit) ELSE cell.s

\* new Date(dateValue), and for a numeric spreadsheet cell the serial-day
\* conversion new Date((dateValue - 25569) * 86400 * 1000)
CellDate(cell, excel, unit) ==
    IF cell.t = "number"
    THEN IF excel THEN DateOfDays((cell.n \div unit) - ExcelEpochOffset)
         ELSE DateOfDays((cell.n \div unit) \div MillisPerDay)
    ELSE cell.asDate

\* value || fallback
OrElse(cell, fallback) == IF Falsy(cell) THEN fallback ELSE cell

\* credit - debit, NaN when either is
NetAmount(debitValue, creditValue) ==
    IF debitValue.nan \/ creditValue.nan THEN NaN ELSE Num(creditValue.v - debitValue.v)

\* the amount of a row: its amount column when it has one, else credit - debit
RowAmount(row, excel, unit, amountCol, debitCol, creditCol) ==
    IF amountCol # 0
    THEN CleanNumber(IF excel THEN row[amountCol][2]
                     ELSE OrElse(row[amountCol][2], StringCell(<<>>, NoDate)),
                     unit)
    ELSE NetAmount(IF debitCol # 0
                   THEN CleanNumber(OrElse(row[debitCol][2], NumberCell(0)), unit)
                   ELSE Num(0),
                   IF creditCol # 0
                   THEN CleanNumber(OrElse(row[creditCol][2], NumberCell(0)), unit)
                   ELSE Num(0))

\* the checks on the values read from a row
RowResult(date, description, amount) ==
    IF date = NoDate \/ amount.nan \/ ~(Len(description) > 1) THEN <<>>
    ELSE <<[date |-> date, description |-> description, amount |-> amount.v]>>

\* a row with its columns found
RowFields(row, excel, unit, dateCol, descCol, amountCol, debitCol, creditCol) ==
    IF dateCol = 0 \/ descCol = 0 \/ (amountCol = 0 /\ debitCol = 0 /\ creditCol = 0)
    THEN <<>>
    ELSE RowResult(CellDate(row[dateCol][2], excel, unit),
                   Trim(CellText(IF excel THEN row[descCol][2]
                                 ELSE OrElse(row[descCol][2], StringCell(<<>>, NoDate)),
                                 unit)),
                   RowAmount(row, excel, unit, amountCol, debitCol, creditCol))

\* The body of the loop over the rows: <<transaction>> when the row yields
\* one, <<>> when it is skipped.  excel tells processExcel from processCSV.
RowTransactions(row, excel, unit) ==
    RowFields(row, excel, unit, findColumn(row, dateNames), findColumn(row, descNames),
              findColumn(row, amountNames), findColumn(row, debitNames),
              findColumn(row, creditNames))

\* failed when there is no row or no row yields a transaction, else the
\* transactions, newest first
RowsResult(data, transactions) ==
    IF Len(data) = 0 THEN [ok |-> FALSE, transactions |-> <<>>]
    ELSE IF Len(transactions) = 0 THEN [ok |-> FALSE, transactions |-> <<>>]
    ELSE [ok |-> TRUE, transactions |-> SortByDate(transactions)]

\* processExcel and processCSV after the file is read
ProcessRows(data, excel, unit) ==
    RowsResult(data,
               Flatten(SubSeq([i \in 1..Len(data) |-> RowTransactions(data[i], excel, unit)],
                              1, Len(data))))

processExcel(data, unit) == ProcessRows(data, TRUE, unit)
processCSV(data, unit) == ProcessRows(data, FALSE, unit)

(***************************************************************************)
(* Sample documents.  The text of a PDF is a sequence of raw lines taken   *)
(* from the lines below: at most one header and up to MaxLines body lines. *)
(***************************************************************************)
\* "Las Condes 19/07/2025 Mercadopago *sociedad A2 89.990 89.990 01/01 sep-2025 89.990"
SpacedLine ==
    <<"L", "a", "s", " ", "C", "o", "n", "d", "e", "s", " ", "1", "9", "/",
      "0", "7", "/", "2", "0", "2", "5", " ", "M", "e", "r", "c", "a", "d",
      "o", "p", "a", "g", "o", " ", "*", "s", "o", "c", "i", "e", "d", "a",
      "d", " ", "A", "2", " ", "8", "9", ".", "9", "9", "0", " ", "8", "9",
      ".", "9", "9", "0", " ", "0", "1", "/", "0", "1", " ", "s", "e", "p",
      "-", "2", "0", "2", "5", " ", "8", "9", ".", "9", "9", "0">>
\* "06/08/2025Anulacion pago automatico abono T17.040-17.04001/01sep-2025-17.040"
ReversalLine ==
    <<"0", "6", "/", "0", "8", "/", "2", "0", "2", "5", "A", "n", "u", "l",
      "a", "c", "i", "o", "n", " ", "p", "a", "g", "o", " ", "a", "u", "t",
      "o", "m", "a", "t", "i", "c", "o", " ", "a", "b", "o", "n", "o", " ",
      "T", "1", "7", ".", "0", "4", "0", "-", "1", "7", ".", "0", "4", "0",
      "0", "1", "/", "0", "1", "s", "e", "p", "-", "2", "0", "2", "5", "-",
      "1", "7", ".", "0", "4", "0">>
\* "Santiago 31/04/2025 Netflix com A1 5.990 5.990 01/01 sep-2025 5.990"
ImpossibleDateLine ==
    <<"S", "a", "n", "t", "i", "a", "g", "o", " ", "3", "1", "/", "0", "4",
      "/", "2", "0", "2", "5", " ", "N", "e", "t", "f", "l", "i", "x", " ",
      "c", "o", "m", " ", "A", "1", " ", "5", ".", "9", "9", "0", " ", "5",
      ".", "9", "9", "0", " ", "0", "1", "/", "0", "1", " ", "s", "e", "p",
      "-", "2", "0", "2", "5", " ", "5", ".", "9", "9", "0">>
\* "Cupon de Pago 25/08/2025 monto total 150.000"
CouponLine ==
    <<"C", "u", "p", "o", "n", " ", "d", "e", " ", "P", "a", "g", "o", " ",
      "2", "5", "/", "0", "8", "/", "2", "0", "2", "5", " ", "m", "o", "n",
      "t", "o", " ", "t", "o", "t", "a", "l", " ", "1", "5", "0", ".", "0",
      "0", "0">>
\* "Vitacura 03/08/2025 Copec ruta 68 total 45.500"
FallbackLine ==
    <<"V", "i", "t", "a", "c", "u", "r", "a", " ", "0", "3", "/", "0", "8",
      "/", "2", "0", "2", "5", " ", "C", "o", "p", "e", "c", " ", "r", "u",
      "t", "a", " ", "6", "8", " ", "t", "o", "t", "a", "l", " ", "4", "5",
      ".", "5", "0", "0">>
\* "Pagina 1 de 3"
PageLine ==
    <<"P", "a", "g", "i", "n", "a", " ", "1", " ", "d", "e", " ", "3">>
\* "    Subtotal 12/08/2025 1.500     "
PaddedLine ==
    <<" ", " ", " ", " ", "S", "u", "b", "t", "o", "t", "a", "l", " ", "1",
      "2", "/", "0", "8", "/", "2", "0", "2", "5", " ", "1", ".", "5", "0",
      "0", " ", " ", " ", " ", " ">>
\* "   "
BlankLine ==
    <<" ", " ", " ">>
\* "05/08AgustinasTraspaso Internet a T.  Credito61.017" (two spaces before "Credito")
LedgerExpenseLine ==
    <<"0", "5", "/", "0", "8", "A", "g", "u", "s", "t", "i", "n", "a", "s",
      "T", "r", "a", "s", "p", "a", "s", "o", " ", "I", "n", "t", "e", "r",
      "n", "e", "t", " ", "a", " ", "T", ".", " ", " ", "C", "r", "e", "d", "i",
      "t", "o", "6", "1", ".", "0", "1", "7">>
\* "31/04Santiago Centro Sueldo empresa1.250.000"
LedgerImpossibleDateLine ==
    <<"3", "1", "/", "0", "4", "S", "a", "n", "t", "i", "a", "g", "o", " ",
      "C", "e", "n", "t", "r", "o", " ", "S", "u", "e", "l", "d", "o", " ",
      "e", "m", "p", "r", "e", "s", "a", "1", ".", "2", "5", "0", ".", "0",
      "0", "0">>
\* "05/08 Deposito CHEQUES otros bancos 150.000"
LedgerChequesLine ==
    <<"0", "5", "/", "0", "8", " ", "D", "e", "p", "o", "s", "i", "t", "o",
      " ", "C", "H", "E", "Q", "U", "E", "S", " ", "o", "t", "r", "o", "s",
      " ", "b", "a", "n", "c", "o", "s", " ", "1", "5", "0", ".", "0", "0",
      "0">>
\* "Este texto no contiene ninguna transaccion valida"
ProseLine ==
    <<"E", "s", "t", "e", " ", "t", "e", "x", "t", "o", " ", "n", "o", " ",
      "c", "o", "n", "t", "i", "e", "n", "e", " ", "n", "i", "n", "g", "u",
      "n", "a", " ", "t", "r", "a", "n", "s", "a", "c", "c", "i", "o", "n",
      " ", "v", "a", "l", "i", "d", "a">>
\* "ESTADO DE CUENTA TARJETA DE CREDITO CMR"
CardHeader ==
    <<"E", "S", "T", "A", "D", "O", " ", "D", "E", " ", "C", "U", "E", "N",
      "T", "A", " ", "T", "A", "R", "J", "E", "T", "A", " ", "D", "E", " ",
      "C", "R", "E", "D", "I", "T", "O", " ", "C", "M", "R">>
\* "CUENTA CORRIENTE SALDO INICIAL"
LedgerHeader ==
    <<"C", "U", "E", "N", "T", "A", " ", "C", "O", "R", "R", "I", "E", "N",
      "T", "E", " ", "S", "A", "L", "D", "O", " ", "I", "N", "I", "C", "I",
      "A", "L">>
\* "01/08Ag 07 Sueldo mes 80.00080.000"
LedgerTieLine ==
    <<"0", "1", "/", "0", "8", "A", "g", " ", "0", "7", " ", "S", "u", "e",
      "l", "d", "o", " ", "m", "e", "s", " ", "8", "0", ".", "0", "0", "0",
      "8", "0", ".", "0", "0", "0">>
\* "01/08Agustinas0797601101 Transf. GENERA SPA8000012.975": the example of
\* the source, "...SPA8000012.975.000", in thousands
LedgerCodeLine ==
    <<"0", "1", "/", "0", "8", "A", "g", "u", "s", "t", "i", "n", "a", "s",
      "0", "7", "9", "7", "6", "0", "1", "1", "0", "1", " ", "T", "r", "a",
      "n", "s", "f", ".", " ", "G", "E", "N", "E", "R", "A", " ", "S", "P",
      "A", "8", "0", "0", "0", "0", "1", "2", ".", "9", "7", "5">>
\* "Falabella cheques Cheques"
MixedHeader ==
    <<"F", "a", "l", "a", "b", "e", "l", "l", "a", " ", "c", "h", "e", "q",
      "u", "e", "s", " ", "C", "h", "e", "q", "u", "e", "s">>
Lines ==
    <<SpacedLine, ReversalLine, ImpossibleDateLine, CouponLine, FallbackLine, PageLine,
      PaddedLine, BlankLine, LedgerExpenseLine, LedgerImpossibleDateLine,
      LedgerChequesLine, ProseLine, CardHeader, LedgerHeader, MixedHeader, LedgerTieLine,
      LedgerCodeLine>>

\* the position of a sample line in Lines: documents hold positions
IndexOf(raw) == CHOOSE i \in 1..Len(Lines) : Lines[i] = raw
Headers == {IndexOf(CardHeader), IndexOf(LedgerHeader), IndexOf(MixedHeader)}
Bodies == (1..Len(Lines)) \ Headers

\* the years the server's clock may show during a request
Years == <<2024, 2025>>

MaxLines == 2
MaxRows == 2
MaxIds == 2
MaxTransactions == 4
SubCent == 2

SeqsUpTo(S, n) == UNION {[1..k -> S] : k \in 0..n}

Docs ==
    {h \o b : h \in {<<>>} \cup {<<x>> : x \in Headers}, b \in SeqsUpTo(Bodies, MaxLines)}

\* the text pdf-extraction returns for a document: its raw lines joined by line feeds
TextOf(doc) ==
    Flatten(SubSeq([i \in 1..Len(doc) |->
                       Lines[doc[i]] \o (IF i < Len(doc) THEN <<"<nl>">> ELSE <<>>)],
                   1, Len(doc)))

(***************************************************************************)
(* Sample rows of a spreadsheet or CSV file, amounts in hundredths.        *)
(***************************************************************************)
Fecha == <<"F", "e", "c", "h", "a">>
Descripcion == <<"D", "e", "s", "c", "r", "i", "p", "c", "i", "o", "n">>
Monto == <<"M", "o", "n", "t", "o">>

PurchaseRow ==
    <<<<Fecha, StringCell(<<"2", "0", "2", "5", "-", "0", "3", "-", "1", "0">>, [year |-> 2025, month |-> 3, day |-> 10])>>,
      <<Descripcion, StringCell(<<"S", "u", "p", "e", "r", "m", "e", "r", "c", "a", "d", "o", " ", "L", "i", "d", "e", "r">>, NoDate)>>,
      <<Monto, NumberCell(-4550)>>>>
SalaryRow ==
    <<<<Fecha, StringCell(<<"2", "0", "2", "5", "-", "0", "3", "-", "0", "1">>, [year |-> 2025, month |-> 3, day |-> 1])>>,
      <<Descripcion, StringCell(<<"S", "u", "e", "l", "d", "o", " ", "m", "a", "r", "z", "o">>, NoDate)>>,
      <<Monto, StringCell(<<"1", ",", "2", "0", "0", ".", "0", "0">>, NoDate)>>>>
TotalsRow ==
    <<<<Fecha, StringCell(<<"T", "o", "t", "a", "l">>, NoDate)>>,
      <<Descripcion, StringCell(<<"S", "a", "l", "d", "o", " ", "d", "e", "l", " ", "p", "e", "r", "i", "o", "d", "o">>, NoDate)>>,
      <<Monto, StringCell(<<"n", "/", "a">>, NoDate)>>>>
Debit == <<"D", "e", "b", "i", "t">>
Credit == <<"C", "r", "e", "d", "i", "t">>

\* a row of a sheet with a column for the debits and one for the credits
DebitRow ==
    <<<<Fecha, StringCell(<<"2", "0", "2", "5", "-", "0", "3", "-", "1", "2">>, [year |-> 2025, month |-> 3, day |-> 12])>>,
      <<Descripcion, StringCell(<<"C", "u", "e", "n", "t", "a", " ", "d", "e", " ", "l", "u", "z">>, NoDate)>>,
      <<Debit, NumberCell(4550)>>,
      <<Credit, NumberCell(0)>>>>
Rows == <<PurchaseRow, SalaryRow, TotalsRow, DebitRow>>
Sheets == {[i \in 1..Len(s) |-> Rows[s[i]]] : s \in SeqsUpTo(1..Len(Rows), MaxRows)}

(***************************************************************************)
(* The loops of the dialect processors, one iteration at a time            *)
(***************************************************************************)
CreditCardMinLength == 30
CurrentAccountMinLength == 20

\* the outcome of one iteration: whether the matcher was called, and its result
Skipped == [called |-> FALSE, result |-> NullResult(0)]
Tried(result) == [called |-> TRUE, result |-> result]

\* a loop body that would only test the length of the line
LengthOnlyStep(line) ==
    IF Len(line) < CreditCardMinLength THEN Skipped
    ELSE Tried(parseCreditCardTransaction(line))

\* the body of the loop of processCreditCardPDF on a trimmed line
CreditCardStep(line) ==
    IF Len(line) < CreditCardMinLength THEN Skipped
    ELSE IF isNonTransactionLine(line) THEN Skipped
    ELSE Tried(parseCreditCardTransaction(line))

\* the body of the loop of processCurrentAccountPDF on a trimmed line
CurrentAccountStep(line, currentYear) ==
    IF Len(line) < CurrentAccountMinLength THEN Skipped
    ELSE IF isNonTransactionLineCurrentAccount(line) THEN Skipped
    ELSE Tried(parseCurrentAccountTransaction(line, currentYear))

NoFields == [city |-> <<>>, dateStr |-> <<>>, rawDescription |-> <<>>, finalAmount |-> <<>>]

\* What the regular expressions say of one raw line.  It is worked out once
\* per sample line and kept in memo: line is text.split('\n').map(trim)'s
\* element, noise and matching are the tests taken one by one, fields the
\* groups each matching credit-statement grammar captures, step the loop
\* bodies' outcomes (per year of the clock for the running-ledger dialect).
Matching(pats, line) == {p \in 1..Len(pats) : MatchAll(pats[p], line).ok}

FactsOf(line, cc, ca) ==
    [line |-> line,
     noise |-> [credit_card |-> isNonTransactionLine(line),
                current_account |-> isNonTransactionLineCurrentAccount(line)],
     matching |-> [credit_card |-> cc, current_account |-> ca],
     fields |-> SubSeq([p \in 1..Len(patterns) |->
                           IF p \in cc THEN ExtractFields(line, p) ELSE NoFields],
                       1, Len(patterns)),
     dayMonth |-> IF ca = {} THEN <<>>
                  ELSE ExtractFieldsCurrentAccount(line, Min(ca)).dateStr,
     amountStr |-> IF ca = {} THEN <<>>
                   ELSE ExtractFieldsCurrentAccount(line, Min(ca)).amountStr,
     runs |-> IF 1 \in ca THEN LedgerRuns(line) ELSE <<>>,
     step |-> [credit_card |-> CreditCardStep(line),
               current_account |->
                   SubSeq([y \in 1..Len(Years) |-> CurrentAccountStep(line, Years[y])],
                          1, Len(Years))]]

LineFacts(raw) ==
    FactsOf(Trim(raw), Matching(patterns, Trim(raw)), Matching(caPatterns, Trim(raw)))

AllLineFacts == SubSeq([i \in 1..Len(Lines) |-> LineFacts(Lines[i])], 1, Len(Lines))

(***************************************************************************)
(* The upload request: POST /api/upload with the TypeScript services       *)
(***************************************************************************)
VARIABLES
    memo,            \* the facts of the regular expressions about the sample lines
    service,         \* "ts": the TypeScript services the route imports; "js": the JavaScript ones
    kind,            \* the extension of the uploaded file, "none" without a file
    extracted,       \* whether pdf-extraction returns a text for the file
    doc,             \* the raw lines of that text, as positions in Lines
    rows,            \* the rows read from a spreadsheet or CSV file
    unit,            \* the minor units per currency unit of the amounts at hand
    currentYear,     \* the position in Years of the year the server's clock shows
    pc,              \* where the request stands
    pdfType,         \* the dialect detectPDFType returned
    lines,           \* text.split('\n').map(trim).filter(nonempty), as positions in Lines
    lineIndex,       \* the number of lines the dialect loop has gone through
    calls,           \* the lines the matcher was called on, in call order
    transactions,    \* the RawTransaction list being built, then returned
    emitted,         \* for each of transactions, the index in lines of the line it came from
    categorized,     \* the result of categorizeTransactions
    metrics,         \* the result of generateAnalysis
    recommendations, \* the result of generateRecommendations
    status,          \* the response sent
    stored,          \* the analyses in storage
    fileOnDisk,      \* whether the uploaded file is in the uploads directory
    requests,        \* the handlers of the uploads in flight, each with its own locals
    analyses,        \* MemStorage.analyses: the analysis kept under each id
    once,            \* removeDuplicateTransactions(transactions)
    twice            \* removeDuplicateTransactions(once)

vars ==
    <<memo, service, kind, extracted, doc, rows, unit, currentYear, pc, pdfType, lines,
      lineIndex, calls, transactions, emitted, categorized, metrics, recommendations,
      status, stored, fileOnDisk, requests, analyses, once, twice>>

allowedTypes == {".pdf", ".xlsx", ".xls", ".csv"}

\* the state before processFile is called
Received(k, x, d, r, u) ==
    /\ kind = k
    /\ extracted = x
    /\ doc = d
    /\ rows = r
    /\ unit = u
    /\ service = "ts"
    /\ pc = "received"
    /\ pdfType = "none"
    /\ lines = <<>>
    /\ lineIndex = 0
    /\ calls = <<>>
    /\ transactions = <<>>
    /\ emitted = <<>>
    /\ categorized = <<>>
    /\ metrics = EmptyAnalysis
    /\ recommendations = <<>>
    /\ status = "pending"
    /\ stored = <<>>
    /\ requests = <<>>
    /\ analyses = <<>>
    /\ fileOnDisk = (k \in allowedTypes)
    /\ once = <<>>
    /\ twice = <<>>

Init ==
    /\ memo = AllLineFacts
    /\ currentYear \in 1..Len(Years)
    /\ \/ \E k \in {"none", ".txt"} : Received(k, FALSE, <<>>, <<>>, 1)
       \/ Received(".pdf", FALSE, <<>>, <<>>, 1)
       \/ \E d \in Docs : Received(".pdf", TRUE, d, <<>>, 1)
       \/ \E k \in {".xlsx", ".xls", ".csv"}, r \in Sheets : Received(k, FALSE, <<>>, r, 100)

\* the analysisData object of the route
analysisData(fileType, categorizedTransactions, m, recs) ==
    [fileType |-> fileType,
     totalIncome |-> m.totalIncome,
     totalExpenses |-> m.totalExpenses,
     savingsRate |-> m.savingsRate,
     transactions |-> categorizedTransactions,
     categories |-> m.categories,
     recommendations |-> recs]

\* catch blocks that answer the error and leave the file where it is
AnswerOnly ==
    /\ fileOnDisk' = fileOnDisk
    /\ status' = "error"
    /\ pc' = "responded"

\* the catch blocks of the route: the file is removed and the error answered
Failure ==
    /\ fileOnDisk' = FALSE
    /\ status' = "error"
    /\ pc' = "responded"

\* multer's fileFilter refuses the file: the route handler is not reached
RejectFile ==
    /\ pc = "received"
    /\ kind \notin allowedTypes \cup {"none"}
    /\ status' = "rejected"
    /\ pc' = "responded"
    /\ UNCHANGED <<requests, analyses, memo, service, kind, extracted, doc, rows, unit, currentYear, pdfType,
                   lines, lineIndex, calls, transactions, emitted, categorized, metrics,
                   recommendations, stored, fileOnDisk, once, twice>>

\* if (!req.file) return res.status(400)
NoFile ==
    /\ pc = "received"
    /\ kind = "none"
    /\ status' = "bad_request"
    /\ pc' = "responded"
    /\ UNCHANGED <<requests, analyses, memo, service, kind, extracted, doc, rows, unit, currentYear, pdfType,
                   lines, lineIndex, calls, transactions, emitted, categorized, metrics,
                   recommendations, stored, fileOnDisk, once, twice>>

\* processFile('.pdf') -> processPDF: the text is extracted, the dialect
\* detected, and the dialect's processor splits the text into its lines
ProcessPDF ==
    /\ pc = "received"
    /\ kind = ".pdf"
    /\ IF ~extracted
       THEN Failure /\ UNCHANGED <<pdfType, lines>>
       ELSE /\ pdfType' = detectPDFType(TextOf(doc))
            /\ lines' = SelectSeq(doc, LAMBDA i : Len(memo[i].line) > 0)
            /\ pc' = pdfType'
            /\ UNCHANGED <<status, fileOnDisk>>
    /\ UNCHANGED <<requests, analyses, memo, service, kind, extracted, doc, rows, unit, currentYear, lineIndex,
                   calls, transactions, emitted, categorized, metrics, recommendations,
                   stored, once, twice>>

\* one iteration of a dialect loop, step being the outcome of its body
LoopStep(step) ==
    /\ lineIndex' = lineIndex + 1
    /\ calls' = IF step.called THEN Append(calls, lines[lineIndex + 1]) ELSE calls
    /\ transactions' = IF step.called /\ step.result.valid
                       THEN Append(transactions, step.result.tx) ELSE transactions
    /\ emitted' = IF step.called /\ step.result.valid
                  THEN Append(emitted, lineIndex + 1) ELSE emitted
    /\ UNCHANGED <<requests, analyses, memo, service, kind, extracted, doc, rows, unit, currentYear, pc,
                   pdfType, lines, categorized, metrics, recommendations, status, stored,
                   fileOnDisk, once, twice>>

CreditCardLine ==
    /\ pc = "credit_card"
    /\ lineIndex < Len(lines)
    /\ LoopStep(memo[lines[lineIndex + 1]].step.credit_card)

CurrentAccountLine ==
    /\ pc = "current_account"
    /\ lineIndex < Len(lines)
    /\ LoopStep(memo[lines[lineIndex + 1]].step.current_account[currentYear])

\* the loop is over: return transactions
ReturnTransactions ==
    /\ pc \in {"credit_card", "current_account"}
    /\ lineIndex = Len(lines)
    /\ pc' = "extracted"
    /\ UNCHANGED <<requests, analyses, memo, service, kind, extracted, doc, rows, unit, currentYear, pdfType,
                   lines, lineIndex, calls, transactions, emitted, categorized, metrics,
                   recommendations, status, stored, fileOnDisk, once, twice>>

\* the clock passes midnight of 31 December
NewYear ==
    /\ currentYear < Len(Years)
    /\ pc # "responded"
    /\ currentYear' = currentYear + 1
    /\ UNCHANGED <<requests, analyses, memo, service, kind, extracted, doc, rows, unit, pc, pdfType, lines,
                   lineIndex, calls, transactions, emitted, categorized, metrics,
                   recommendations, status, stored, fileOnDisk, once, twice>>

\* processFile on a spreadsheet or CSV file: result is what the processor made of the rows
ProcessSheet(result) ==
    /\ IF result.ok
       THEN /\ transactions' = result.transactions
            /\ pc' = "extracted"
            /\ UNCHANGED <<status, fileOnDisk>>
       ELSE Failure /\ UNCHANGED transactions
    /\ UNCHANGED <<requests, analyses, memo, service, kind, extracted, doc, rows, unit, currentYear, pdfType,
                   lines, lineIndex, calls, emitted, categorized, metrics, recommendations,
                   stored, once, twice>>

ProcessExcel ==
    /\ pc = "received"
    /\ kind \in {".xlsx", ".xls"}
    /\ ProcessSheet(processExcel(rows, unit))

ProcessCSV ==
    /\ pc = "received"
    /\ kind = ".csv"
    /\ ProcessSheet(processCSV(rows, unit))

\* The values generateTransactionId may return for n transactions, up to
\* renaming: the ids are numbered in order of first appearance.  Two calls may
\* return the same id.
IdChoices(n) ==
    {ids \in [1..n -> 1..MaxIds] :
        \A i \in 1..n : \A v \in 1..(ids[i] - 1) : \E j \in 1..(i - 1) : ids[j] = v}

AsSeq(f) == SubSeq(f, 1, Len(f))

\* await categorizeTransactions(rawTransactions)
Categorize ==
    /\ pc = "extracted"
    /\ \E ids \in IdChoices(Len(transactions)) :
          categorized' = AsSeq(IF service = "ts"
                               THEN categorizeTransactions(transactions, ids)
                               ELSE categorizeTransactionsJs(transactions, ids))
    /\ pc' = "categorized"
    /\ UNCHANGED <<requests, analyses, memo, service, kind, extracted, doc, rows, unit, currentYear, pdfType,
                   lines, lineIndex, calls, transactions, emitted, metrics,
                   recommendations, status, stored, fileOnDisk, once, twice>>

\* generateAnalysis(categorizedTransactions)
Analyze ==
    /\ pc = "categorized"
    /\ metrics' = IF service = "ts" THEN generateAnalysis(categorized, unit)
                  ELSE generateAnalysisJs(categorized, unit)
    /\ pc' = "analyzed"
    /\ UNCHANGED <<requests, analyses, memo, service, kind, extracted, doc, rows, unit, currentYear, pdfType,
                   lines, lineIndex, calls, transactions, emitted, categorized,
                   recommendations, status, stored, fileOnDisk, once, twice>>

\* generateRecommendations(categorizedTransactions, metrics)
Recommend ==
    /\ pc = "analyzed"
    /\ recommendations' = IF service = "ts" THEN generateRecommendations(categorized, metrics)
                          ELSE generateRecommendationsJs(categorized, metrics)
    /\ pc' = "recommended"
    /\ UNCHANGED <<requests, analyses, memo, service, kind, extracted, doc, rows, unit, currentYear, pdfType,
                   lines, lineIndex, calls, transactions, emitted, categorized, metrics,
                   status, stored, fileOnDisk, once, twice>>

\* storage.createAnalysis(analysisData), fs.unlinkSync(filePath), res.json(success)
Store ==
    /\ pc = "recommended"
    /\ kind \in allowedTypes
    /\ stored' = Append(stored, analysisData(kind, categorized, metrics, recommendations))
    /\ fileOnDisk' = FALSE
    /\ status' = "success"
    /\ pc' = "responded"
    /\ UNCHANGED <<requests, analyses, memo, service, kind, extracted, doc, rows, unit, currentYear, pdfType,
                   lines, lineIndex, calls, transactions, emitted, categorized, metrics,
                   recommendations, once, twice>>

Next ==
    \/ RejectFile
    \/ NoFile
    \/ ProcessPDF
    \/ CreditCardLine
    \/ CurrentAccountLine
    \/ ReturnTransactions
    \/ NewYear
    \/ ProcessExcel
    \/ ProcessCSV
    \/ Categorize
    \/ Analyze
    \/ Recommend
    \/ Store

Spec == Init /\ [][Next]_vars

(***************************************************************************)
(* categorizeTransactions, generateAnalysis and generateRecommendations of *)
(* either service on transaction lists, amounts counted in 1/SubCent of a  *)
(* hundredth                                                               *)
(***************************************************************************)
SampleDate == [year |-> 2025, month |-> 8, day |-> 5]
Raw(date, description, amount) ==
    [date |-> date, description |-> description, amount |-> amount]

\* samples for a list whose amounts are numerators over u
Samples(u) ==
    <<Raw(SampleDate, <<"S", "u", "e", "l", "d", "o">>, u \div 100),
      Raw(SampleDate, <<"U", "b", "e", "r">>, -1),
      Raw(SampleDate, <<"N", "e", "t", "f", "l", "i", "x", " ", "U", "b", "e", "r">>, -50 * u),
      Raw(SampleDate, <<"G", "i", "r", "o", " ", "a", "g", "o", "s", "t", "o">>, 1200 * u),
      Raw(SampleDate, <<"N", "e", "t", "f", "l", "i", "x">>, -(20 * u + u \div 200))>>

Lists(samples) ==
    {[i \in 1..Len(s) |-> samples[s[i]]] : s \in SeqsUpTo(1..Len(samples), MaxTransactions)}

\* the state in which a list of raw transactions is handed over
Extracted(s, l, u) ==
    /\ memo = <<>>
    /\ service = s
    /\ kind = "list"
    /\ extracted = FALSE
    /\ doc = <<>>
    /\ rows = <<>>
    /\ unit = u
    /\ currentYear = 1
    /\ pc = "extracted"
    /\ pdfType = "none"
    /\ lines = <<>>
    /\ lineIndex = 0
    /\ calls = <<>>
    /\ transactions = l
    /\ emitted = <<>>
    /\ categorized = <<>>
    /\ metrics = EmptyAnalysis
    /\ recommendations = <<>>
    /\ status = "pending"
    /\ stored = <<>>
    /\ requests = <<>>
    /\ analyses = <<>>
    /\ fileOnDisk = FALSE
    /\ once = <<>>
    /\ twice = <<>>

InitAnalysis ==
    \E s \in {"ts", "js"}, l \in Lists(Samples(100 * SubCent)) : Extracted(s, l, 100 * SubCent)

NextAnalysis == Categorize \/ Analyze \/ Recommend

SpecAnalysis == InitAnalysis /\ [][NextAnalysis]_vars

\* samples of four categories of expense whose shares lie on both sides of
\* the alert thresholds
AlertSamples(u) ==
    <<Raw(SampleDate, <<"S", "u", "e", "l", "d", "o">>, 1200 * u),
      Raw(SampleDate, <<"R", "e", "s", "t", "a", "u", "r", "a", "n", "t">>, -40 * u),
      Raw(SampleDate, <<"U", "b", "e", "r">>, -20 * u),
      Raw(SampleDate, <<"N", "e", "t", "f", "l", "i", "x">>, -15 * u),
      Raw(SampleDate, <<"G", "i", "r", "o">>, -30 * u)>>

InitAlerts ==
    \E s \in {"ts", "js"}, l \in Lists(AlertSamples(100 * SubCent)) :
        Extracted(s, l, 100 * SubCent)

SpecAlerts == InitAlerts /\ [][NextAnalysis]_vars

(***************************************************************************)
(* removeDuplicateTransactions on transaction lists                        *)
(***************************************************************************)
NextDate == [year |-> 2025, month |-> 8, day |-> 6]

DuplicateSamples ==
    <<Raw(SampleDate, <<"p", "a", "g", "o">>, 15),
      Raw(SampleDate, <<"p", "a", "g", "o", "1">>, 5),
      Raw(SampleDate, <<"p", "a", "g", "o">>, -15),
      Raw(NextDate, <<"p", "a", "g", "o">>, 15),
      Raw(SampleDate, <<"p", "a", "g", "o", "_", "1">>, 5)>>

InitDuplicates == \E l \in Lists(DuplicateSamples) : Extracted("ts", l, 1)

Deduplicate ==
    /\ pc = "extracted"
    /\ once' = removeDuplicateTransactions(transactions)
    /\ pc' = "deduplicated"
    /\ UNCHANGED <<requests, analyses, memo, service, kind, extracted, doc, rows, unit, currentYear, pdfType,
                   lines, lineIndex, calls, transactions, emitted, categorized, metrics,
                   recommendations, status, stored, fileOnDisk, twice>>

DeduplicateAgain ==
    /\ pc = "deduplicated"
    /\ twice' = removeDuplicateTransactions(once)
    /\ pc' = "deduplicated_again"
    /\ UNCHANGED <<requests, analyses, memo, service, kind, extracted, doc, rows, unit, currentYear, pdfType,
                   lines, lineIndex, calls, transactions, emitted, categorized, metrics,
                   recommendations, status, stored, fileOnDisk, once>>

NextDuplicates == Deduplicate \/ DeduplicateAgain

SpecDuplicates == InitDuplicates /\ [][NextDuplicates]_vars

(***************************************************************************)
(* Several uploads in flight.  Node runs one handler at a time and hands   *)
(* over at each await: after processFile, after categorizeTransactions and *)
(* after storage.createAnalysis.  The locals of a handler are its own; the *)
(* handlers share the storage and the uploads directory, where multer      *)
(* gives each file a name of its own.                                      *)
(***************************************************************************)
MaxUploads == 2

\* the files uploaded, by what processFile makes of them
UploadFiles ==
    <<[fileType |-> ".csv", readable |-> TRUE,
       raw |-> <<AlertSamples(100 * SubCent)[1], AlertSamples(100 * SubCent)[3]>>],
      [fileType |-> ".xlsx", readable |-> TRUE,
       raw |-> <<AlertSamples(100 * SubCent)[2]>>],
      [fileType |-> ".pdf", readable |-> FALSE, raw |-> <<>>]>>

\* the handler of a request that came with the file f (0: without a file)
NewRequest(f) ==
    [file |-> f, pc |-> "received", fileOnDisk |-> f # 0, rawTransactions |-> <<>>,
     categorizedTransactions |-> <<>>, analysisId |-> 0, status |-> "pending"]

Uuids == 1..(MaxUploads + 1)

\* a generator that may return an id again
AnyUuid(used) == Uuids

\* the values randomUUID() may return: a version-4 UUID is not one in use
randomUUID(used) == Uuids \ used

\* a storage that keeps the last analysis only
createOnlyAnalysis(map, id, insertAnalysis) == id :> ([id |-> id] @@ insertAnalysis)

\* MemStorage.createAnalysis: analyses.set(id, {...insertAnalysis, id})
createAnalysis(map, id, insertAnalysis) == (id :> ([id |-> id] @@ insertAnalysis)) @@ map

\* what Map.get gives for an id without an entry
Undefined == [id |-> 0]

\* MemStorage.getAnalysis
getAnalysis(map, id) == IF id \in DOMAIN map THEN map[id] ELSE Undefined

InitUploads ==
    /\ \E fs \in [1..MaxUploads -> 0..Len(UploadFiles)] :
          requests = AsSeq([r \in 1..MaxUploads |-> NewRequest(fs[r])])
    /\ analyses = <<>>
    /\ memo = <<>>
    /\ service = "ts"
    /\ kind = "uploads"
    /\ extracted = FALSE
    /\ doc = <<>>
    /\ rows = <<>>
    /\ unit = 100 * SubCent
    /\ currentYear = 1
    /\ pc = "uploads"
    /\ pdfType = "none"
    /\ lines = <<>>
    /\ lineIndex = 0
    /\ calls = <<>>
    /\ transactions = <<>>
    /\ emitted = <<>>
    /\ categorized = <<>>
    /\ metrics = EmptyAnalysis
    /\ recommendations = <<>>
    /\ status = "pending"
    /\ stored = <<>>
    /\ fileOnDisk = FALSE
    /\ once = <<>>
    /\ twice = <<>>

OneRequestUnchanged ==
    UNCHANGED <<memo, service, kind, extracted, doc, rows, unit, currentYear, pc, pdfType,
                lines, lineIndex, calls, transactions, emitted, categorized, metrics,
                recommendations, status, stored, fileOnDisk, once, twice>>

\* if (!req.file) return res.status(400)
UploadNoFile(r) ==
    /\ requests[r].pc = "received"
    /\ requests[r].file = 0
    /\ requests' = [requests EXCEPT ![r].status = "bad_request", ![r].pc = "responded"]
    /\ UNCHANGED analyses
    /\ OneRequestUnchanged

\* the catch blocks for one of several requests
UploadFailure(req) ==
    [req EXCEPT !.fileOnDisk = FALSE, !.status = "error", !.pc = "responded"]

\* await processFile(filePath, fileType)
UploadProcess(r) ==
    /\ requests[r].pc = "received"
    /\ requests[r].file # 0
    /\ requests' =
          [requests EXCEPT ![r] =
              IF UploadFiles[requests[r].file].readable
              THEN [@ EXCEPT !.rawTransactions = UploadFiles[requests[r].file].raw,
                             !.pc = "processed"]
              ELSE UploadFailure(@)]
    /\ UNCHANGED analyses
    /\ OneRequestUnchanged

\* await categorizeTransactions(rawTransactions)
UploadCategorize(r) ==
    /\ requests[r].pc = "processed"
    /\ \E ids \in IdChoices(Len(requests[r].rawTransactions)) :
          requests' =
              [requests EXCEPT ![r].categorizedTransactions =
                                   AsSeq(categorizeTransactions(requests[r].rawTransactions, ids)),
                               ![r].pc = "categorized"]
    /\ UNCHANGED analyses
    /\ OneRequestUnchanged

\* the analysisData of a request from its metrics
RequestAnalysis(fileType, categorizedTransactions, m) ==
    analysisData(fileType, categorizedTransactions, m,
                 generateRecommendations(categorizedTransactions, m))

\* generateAnalysis, generateRecommendations and the call of
\* storage.createAnalysis, which sets the entry before it is awaited
UploadStore(r) ==
    /\ requests[r].pc = "categorized"
    /\ \E id \in randomUUID(DOMAIN analyses) :
          /\ analyses' =
                createAnalysis(analyses, id,
                    RequestAnalysis(UploadFiles[requests[r].file].fileType,
                                    requests[r].categorizedTransactions,
                                    generateAnalysis(requests[r].categorizedTransactions, unit)))
          /\ requests' = [requests EXCEPT ![r].analysisId = id, ![r].pc = "stored"]
    /\ OneRequestUnchanged

\* fs.unlinkSync(filePath) and res.json({success: true, analysisId, ...})
UploadRespond(r) ==
    /\ requests[r].pc = "stored"
    /\ requests' = [requests EXCEPT ![r].fileOnDisk = FALSE, ![r].status = "success",
                                    ![r].pc = "responded"]
    /\ UNCHANGED analyses
    /\ OneRequestUnchanged

NextUploads ==
    \E r \in 1..MaxUploads :
        \/ UploadNoFile(r)
        \/ UploadProcess(r)
        \/ UploadCategorize(r)
        \/ UploadStore(r)
        \/ UploadRespond(r)

SpecUploads == InitUploads /\ [][NextUploads]_vars

(***************************************************************************)
(* Properties                                                              *)
(***************************************************************************)
\* the dialect loop of the request has run, wholly or in part
InDialect == pdfType \in {"credit_card", "current_account"} /\ pc # "received"

MinLength(dialect) ==
    IF dialect = "credit_card" THEN CreditCardMinLength ELSE CurrentAccountMinLength

Trimmed(line) ==
    line = <<>> \/ (line[1] \notin WhiteSpace /\ line[Len(line)] \notin WhiteSpace)

\* C1: in both dialect loops the matcher is called only on trimmed lines of
\* at least the dialect's minimum length that match none of the dialect's
\* noise signatures, and every transaction comes from such a line.
NoiseNeverReachesMatcher ==
    InDialect =>
        /\ \A k \in 1..Len(calls) :
              /\ Trimmed(memo[calls[k]].line)
              /\ Len(memo[calls[k]].line) >= MinLength(pdfType)
              /\ ~memo[calls[k]].noise[pdfType]
        /\ \A j \in 1..Len(emitted) :
              /\ \E k \in 1..Len(calls) : calls[k] = lines[emitted[j]]
              /\ ~memo[lines[emitted[j]]].noise[pdfType]
        /\ Len(emitted) = Len(transactions)

\* a card statement whose coupon line (noise, long enough) was skipped while
\* another line was matched into a transaction
NoiseLineSkipped ==
    /\ pdfType = "credit_card"
    /\ pc = "extracted"
    /\ \E k \in 1..Len(lines) :
          /\ lines[k] = IndexOf(CouponLine)
          /\ Len(memo[lines[k]].line) >= CreditCardMinLength
          /\ memo[lines[k]].noise.credit_card
    /\ Len(calls) = 1
    /\ Len(transactions) = 1

Lowest(S) == IF S = {} THEN 0 ELSE Min(S)

\* C2: the grammar used for a line is the lowest-index grammar of the
\* dialect's list that matches the whole line, and the fields of a
\* transaction are that grammar's groups.
LowestGrammarWins ==
    InDialect =>
        \A k \in 1..Len(calls) :
            LET f == memo[calls[k]]
                low == Lowest(f.matching[pdfType])
                r == IF pdfType = "credit_card" THEN f.step.credit_card.result
                     ELSE f.step.current_account[currentYear].result
            IN /\ r.patternUsed = low
               /\ r.valid /\ pdfType = "credit_card" =>
                     /\ r.dateStr = f.fields[low].dateStr
                     /\ r.tx.description =
                            CollapseWhiteSpace(Trim(f.fields[low].rawDescription))
               /\ r.valid /\ pdfType = "current_account" => r.dateStr = f.dayMonth

\* the matcher was called on a line that the spaced and the fallback grammar
\* both match, with different groups, and a transaction came out of it
BothGrammarsMatch ==
    /\ pdfType = "credit_card"
    /\ Len(transactions) >= 1
    /\ \E k \in 1..Len(calls) :
          /\ {1, 6} \subseteq memo[calls[k]].matching.credit_card
          /\ memo[calls[k]].fields[1] # memo[calls[k]].fields[6]
          /\ memo[calls[k]].step.credit_card.result.valid

\* C3: the reversal line of a card statement yields exactly one transaction,
\* of amount -17040.
ReversalKeepsNegativeAmount ==
    (pdfType = "credit_card" /\ pc = "extracted") =>
        \A k \in 1..Len(lines) :
            lines[k] = IndexOf(ReversalLine) =>
                /\ Cardinality({j \in 1..Len(emitted) : emitted[j] = k}) = 1
                /\ \A j \in 1..Len(emitted) :
                      emitted[j] = k => transactions[j].amount = -17040

\* C4: the list a card statement yields holds no two transactions of equal
\* date, description and signed amount.
NoDuplicateTransactions ==
    (pdfType = "credit_card" /\ pc \in {"extracted", "categorized"}) =>
        \A i, j \in 1..Len(transactions) : i # j => transactions[i] # transactions[j]

\* C5: a document of an accepted kind from which no transaction is extracted
\* is answered with an error.
NoTransactionsIsAnError ==
    (pc = "responded" /\ kind \in allowedTypes /\ transactions = <<>>) => status = "error"

\* the day and month written in the date token of the line at position k of lines
TokenDayMonth(k) ==
    IF pdfType = "credit_card"
    THEN SplitDate(memo[lines[k]].step.credit_card.result.dateStr)
    ELSE SplitDayMonth(memo[lines[k]].dayMonth)

\* C6: every transaction of a dialect loop has the day and month written in
\* the date token of its line, which is a day of that month.
DateIsTheTokensDate ==
    InDialect =>
        \A j \in 1..Len(emitted) :
            /\ transactions[j].date.day = TokenDayMonth(emitted[j]).day
            /\ transactions[j].date.month = TokenDayMonth(emitted[j]).month

\* C7: a transaction of a card statement that comes from a grammar other
\* than the reversal grammar has a negative amount, of the magnitude parsed
\* from the amount token, and is categorized as an expense.
CardTransactionsAreExpenses ==
    (pdfType = "credit_card" /\ pc # "received") =>
        \A j \in 1..Len(emitted) :
            LET f == memo[lines[emitted[j]]]
                used == f.step.credit_card.result.patternUsed
            IN used # 5 =>
                  /\ transactions[j].amount < 0
                  /\ -transactions[j].amount =
                         parseFloat(RemoveChar(f.fields[used].finalAmount, ".")).v
                  /\ Len(categorized) = Len(transactions) =>
                         /\ categorized[j].type = "expense"
                         /\ categorized[j].originalAmount = transactions[j].amount

\* a card statement with a transaction of the spaced grammar and one of the
\* fallback grammar, both categorized
CardTransactionsCategorized ==
    /\ pdfType = "credit_card"
    /\ pc = "categorized"
    /\ Len(categorized) = 2
    /\ \E i, j \in 1..Len(emitted) :
          /\ memo[lines[emitted[i]]].step.credit_card.result.patternUsed = 1
          /\ memo[lines[emitted[j]]].step.credit_card.result.patternUsed = 6

SameTransaction(a, b) ==
    a.date = b.date /\ a.description = b.description /\ a.amount = b.amount

\* the positions of s that no earlier position duplicates
FirstOccurrences(s) ==
    {i \in 1..Len(s) : \A j \in 1..(i - 1) : ~SameTransaction(s[j], s[i])}

\* C8: removeDuplicateTransactions keeps, in order, exactly the transactions
\* that no earlier transaction equals in date, description and signed amount,
\* and applied to its own result it returns that result.
DeduplicationKeepsFirstOccurrences ==
    /\ pc \in {"deduplicated", "deduplicated_again"} =>
          once = Pick(transactions, FirstOccurrences(transactions))
    /\ pc = "deduplicated_again" => twice = once

\* a list with a repeated transaction and with two transactions that differ
\* in the sign of the amount only, deduplicated twice
DuplicateDropped ==
    /\ pc = "deduplicated_again"
    /\ Len(once) = 2
    /\ Len(transactions) = 3
    /\ once[1].description = once[2].description
    /\ once[1].date = once[2].date
    /\ once[1].amount = -once[2].amount

PositiveSum(amounts) == SumSeq(SelectSeq(amounts, LAMBDA a : a > 0))
NegativeSum(amounts) == -SumSeq(SelectSeq(amounts, LAMBDA a : a < 0))
SignedAmounts == SubSeq(Amounts(transactions), 1, Len(transactions))

\* C9: with either service, the totals reported for a categorized list are
\* the sum of the positive signed amounts of the raw transactions and the
\* sum of the magnitudes of the negative ones.
TotalsFromSignedAmounts ==
    pc \in {"analyzed", "recommended"} =>
        /\ metrics.totalIncome = RoundCents(PositiveSum(SignedAmounts), unit)
        /\ metrics.totalExpenses = RoundCents(NegativeSum(SignedAmounts), unit)

\* C10 as stated: the reported totals satisfy
\* totalIncome - totalExpenses = totalSavings.
SavingsIdentity ==
    pc \in {"analyzed", "recommended"} =>
        metrics.totalIncome - metrics.totalExpenses = metrics.totalSavings

\* every amount of the list is a whole number of hundredths
WholeCents == \A i \in 1..Len(transactions) : (100 * transactions[i].amount) % unit = 0

\* C10, amended: the reported totalIncome - totalExpenses and totalSavings
\* differ by at most one hundredth, and are equal when every amount is a
\* whole number of hundredths.
SavingsWithinOneCent ==
    pc \in {"analyzed", "recommended"} =>
        /\ Abs(metrics.totalIncome - metrics.totalExpenses - metrics.totalSavings) <= 1
        /\ WholeCents => metrics.totalIncome - metrics.totalExpenses = metrics.totalSavings

\* an analysis with income and expenses whose reported savings are one
\* hundredth off the difference of the reported totals
SavingsOffByOneCent ==
    /\ pc = "analyzed"
    /\ metrics.totalIncome > 0
    /\ metrics.totalExpenses > 0
    /\ Abs(metrics.totalIncome - metrics.totalExpenses - metrics.totalSavings) = 1

\* the expense transactions of the categorized list classified into name
ExpensesOf(name) ==
    SelectSeq(categorized, LAMBDA t : t.type = "expense" /\ t.category = name)

\* the sum of the magnitudes of the expense transactions classified into name
ExpenseTotal(name) == SumSeq(Amounts(ExpensesOf(name)))

Breakdown == metrics.categories

\* the breakdown of the TypeScript service has been computed
BreakdownMade == service = "ts" /\ pc \in {"analyzed", "recommended"}

\* the breakdown lists each category with an expense once, and no other
BreakdownListsExpenseCategories ==
    /\ \A i, j \in 1..Len(Breakdown) : Breakdown[i].name = Breakdown[j].name => i = j
    /\ {Breakdown[i].name : i \in 1..Len(Breakdown)} =
           {categorized[k].category :
               k \in {n \in 1..Len(categorized) : categorized[n].type = "expense"}}
    /\ \A i \in 1..Len(Breakdown) :
          Breakdown[i].transactionCount = Len(ExpensesOf(Breakdown[i].name))

\* the percentages, as exact fractions of one total, sum to 100
PercentagesSumTo100 ==
    Breakdown # <<>> =>
        /\ \A i \in 1..Len(Breakdown) :
              /\ Breakdown[i].percentage.den = Breakdown[1].percentage.den
              /\ Breakdown[i].percentage.num = ExpenseTotal(Breakdown[i].name)
        /\ SumSeq([i \in 1..Len(Breakdown) |-> Breakdown[i].percentage.num])
               = Breakdown[1].percentage.den

Occurs(keyword, lowerDesc) == Includes(lowerDesc, toLowerCase(keyword))

OccurringIn(rules, lowerDesc) ==
    {e \in 1..Len(rules) :
        \E k \in 1..Len(rules[e].keywords) : Occurs(rules[e].keywords[k], lowerDesc)}

RulesOf(svc) == IF svc = "ts" THEN categoryRules ELSE categoryRulesJs

CatchAllOf(svc) == IF svc = "ts" THEN "Otros" ELSE "Other"

EntriesOccurring(rules, description) == OccurringIn(rules, toLowerCase(description))

CategoryByTableOrder(rules, catchAll, entries) ==
    IF entries = {} THEN catchAll ELSE rules[Lowest(entries)].category

Classified == pc = "categorized"

FirstCategoryInTableOrder ==
    Classified =>
        \A i \in 1..Len(categorized) :
            categorized[i].category =
                CategoryByTableOrder(RulesOf(service), CatchAllOf(service),
                    EntriesOccurring(RulesOf(service), categorized[i].description))

\* a description holding keywords of two entries, the later entry's keyword
\* written first, next to a description holding no keyword at all
TwoEntriesOccur ==
    /\ Classified
    /\ service = "ts"
    /\ \E i \in 1..Len(categorized) :
          /\ Cardinality(EntriesOccurring(categoryRules, categorized[i].description)) >= 2
          /\ categorized[i].category = "Transporte"
    /\ \E i \in 1..Len(categorized) :
          /\ EntriesOccurring(categoryRules, categorized[i].description) = {}
          /\ categorized[i].category = "Otros"


(***************************************************************************)
(* C13: detectPDFType returns the running-ledger dialect only when the     *)
(* running-ledger score strictly exceeds the credit-statement score, a     *)
(* tie (0-0 included) gives the credit-statement dialect, and the answer   *)
(* is always one of the two dialects.  As claimed, each score is the       *)
(* number of occurrences of the set's keywords in the text, whatever the   *)
(* case of the letters (DialectByOccurrences); in the code each score is   *)
(* the number of keywords of the set that occur at least once              *)
(* (DialectByKeywordsPresent).                                             *)
(***************************************************************************)
OccurrencesOf(keyword, lowerText) ==
    Cardinality({p \in 1..(Len(lowerText) - Len(keyword) + 1) :
                    SubSeq(lowerText, p, p + Len(keyword) - 1) = toLowerCase(keyword)})

RECURSIVE SumOfOccurrences(_, _, _)
SumOfOccurrences(indicators, lowerText, k) ==
    IF k > Len(indicators) THEN 0
    ELSE OccurrencesOf(indicators[k], lowerText)
            + SumOfOccurrences(indicators, lowerText, k + 1)

KeywordsPresent(indicators, lowerText) ==
    Cardinality({k \in 1..Len(indicators) : OccurrencesOf(indicators[k], lowerText) > 0})

DialectOf(currentAccountScore, creditCardScore) ==
    IF currentAccountScore > creditCardScore THEN "current_account" ELSE "credit_card"

\* the state detectPDFType returned into
DialectDetected == pc \in {"credit_card", "current_account"} /\ lineIndex = 0

DialectByOccurrenceScores(lowerText) ==
    pdfType = DialectOf(SumOfOccurrences(currentAccountIndicators, lowerText, 1),
                        SumOfOccurrences(creditCardIndicators, lowerText, 1))

DialectByOccurrences ==
    DialectDetected => DialectByOccurrenceScores(toLowerCase(TextOf(doc)))

DialectByPresenceScores(lowerText) ==
    pdfType = DialectOf(KeywordsPresent(currentAccountIndicators, lowerText),
                        KeywordsPresent(creditCardIndicators, lowerText))

DialectByKeywordsPresent ==
    DialectDetected => DialectByPresenceScores(toLowerCase(TextOf(doc)))

\* one keyword of each set is present, the running ledger's twice
TieOfPresentKeywords ==
    /\ DialectDetected
    /\ pdfType = "credit_card"
    /\ doc = <<IndexOf(MixedHeader)>>
    /\ KeywordsPresent(currentAccountIndicators, toLowerCase(TextOf(doc))) = 1
    /\ KeywordsPresent(creditCardIndicators, toLowerCase(TextOf(doc))) = 1
    /\ SumOfOccurrences(currentAccountIndicators, toLowerCase(TextOf(doc)), 1) = 2


(***************************************************************************)
(* C14: in the list generateRecommendations returns, no recommendation is  *)
(* preceded by a recommendation of strictly lower priority (high before    *)
(* medium before low).                                                     *)
(***************************************************************************)
Rank(priority) == CASE priority = "high" -> 3 [] priority = "medium" -> 2 [] OTHER -> 1

Recommended == pc = "recommended"

HighestPriorityFirst ==
    Recommended =>
        \A i, j \in 1..Len(recommendations) :
            i < j => Rank(recommendations[i].priority) >= Rank(recommendations[j].priority)

(***************************************************************************)
(* C15: generateRecommendations of the TypeScript service emits exactly    *)
(* one savings-rate recommendation: savings_rate_low iff savingsRate < 20, *)
(* savings_rate_good iff savingsRate >= 20 (savingsRate is held in         *)
(* hundredths of a percent).                                               *)
(***************************************************************************)
IdsAt(id) == {i \in 1..Len(recommendations) : recommendations[i].id = id}

AlertRules ==
    IF service = "ts"
    THEN {[name |-> "Comida y Restaurantes", id |-> "food_dining_high", above |-> 15],
          [name |-> "Transporte", id |-> "transport_high", above |-> 20],
          [name |-> "Entretenimiento", id |-> "entertainment_high", above |-> 10]}
    ELSE {[name |-> "Food & Dining", id |-> "food_dining_high", above |-> 15],
          [name |-> "Transportation", id |-> "transportation_high", above |-> 20],
          [name |-> "Entertainment", id |-> "entertainment_high", above |-> 10]}

\* the share of an entry of the breakdown exceeds a whole percentage
ShareExceeds(entry, percent) == entry.percentage.num * 100 > percent * entry.percentage.den

AlertDue(rule) ==
    \E k \in 1..Len(metrics.categories) :
        /\ k <= 3
        /\ metrics.categories[k].name = rule.name
        /\ ShareExceeds(metrics.categories[k], rule.above)

AlertsOfTopThreeAboveThreshold ==
    Recommended =>
        \A rule \in AlertRules :
            /\ Cardinality(IdsAt(rule.id)) <= 1
            /\ IdsAt(rule.id) # {} <=> AlertDue(rule)

\* four entries: the first alerts, the third lies under its threshold and
\* the fourth lies above its own
FourthEntryAboveThreshold ==
    /\ Recommended
    /\ service = "ts"
    /\ Len(metrics.categories) = 4
    /\ metrics.categories[1].name = "Comida y Restaurantes"
    /\ IdsAt("food_dining_high") # {}
    /\ metrics.categories[3].name = "Transporte"
    /\ ~ShareExceeds(metrics.categories[3], 20)
    /\ IdsAt("transport_high") = {}
    /\ metrics.categories[4].name = "Entretenimiento"
    /\ ShareExceeds(metrics.categories[4], 10)
    /\ IdsAt("entertainment_high") = {}

(***************************************************************************)
(* C17: generateRecommendations never returns more than 6                  *)
(* recommendations.                                                        *)
(***************************************************************************)
AtMostSixRecommendations == Recommended => Len(recommendations) <= 6

\* the longest list: the JavaScript service's three alerts, its two
\* investment recommendations and the budget recommendation
SixRecommendations ==
    /\ Recommended
    /\ service = "js"
    /\ Len(recommendations) = 6
    /\ Len(metrics.categories) = 3
    /\ recommendations[6].id = "budget_tracking"


(***************************************************************************)
(* C18: in the running-ledger dialect, when the number sequence of a line  *)
(* of the first grammar holds two or more thousand-separated runs, the run *)
(* taken as the amount of the transaction is not the maximum of the runs   *)
(* and is not the sum of the other runs.                                   *)
(***************************************************************************)
RunValue(run) == DigitsValue(RemoveChar(run, "."))

RunValues(runs) == [i \in 1..Len(runs) |-> RunValue(runs[i])]

LedgerTransactions == pdfType = "current_account" /\ pc # "received"

SelectedIsNeitherBalanceNorSum ==
    LedgerTransactions =>
        \A j \in 1..Len(emitted) :
            LET values == RunValues(memo[lines[emitted[j]]].runs)
                selected == Abs(transactions[j].amount)
            IN Len(values) >= 2 =>
                  /\ selected # Max({values[i] : i \in 1..Len(values)})
                  /\ selected # SumSeq(values) - selected

(***************************************************************************)
(* C19: a transaction of a credit-statement line parsed by the fallback    *)
(* grammar (the sixth) has for amount the last numeric run of the line and *)
(* for description the remainder without any numeric run.                  *)
(***************************************************************************)
NumericChars == Digit \cup {".", ","}

LastNumericRun(line) ==
    LET last == Max({q \in 1..Len(line) : line[q] \in NumericChars})
        first == Min({p \in 1..last : \A q \in p..last : line[q] \in NumericChars})
    IN SubSeq(line, first, last)

FallbackAmountIsLastRun ==
    (pdfType = "credit_card" /\ pc # "received") =>
        \A j \in 1..Len(emitted) :
            LET f == memo[lines[emitted[j]]]
            IN f.step.credit_card.result.patternUsed = 6 =>
                  /\ Abs(transactions[j].amount) = RunValue(LastNumericRun(f.line))
                  /\ \A q \in 1..Len(transactions[j].description) :
                         transactions[j].description[q] \notin NumericChars

(***************************************************************************)
(* C20: in the running-ledger dialect the amount of a transaction is       *)
(* negative iff its description holds a keyword of the expense list,       *)
(* whatever the case of its letters, and positive otherwise; its magnitude *)
(* is the amount parsed from the line.                                     *)
(***************************************************************************)
HoldsExpenseKeyword(lowerDesc) ==
    \E k \in 1..Len(expenseKeywords) : Occurs(expenseKeywords[k], lowerDesc)

SignFromExpenseKeywords ==
    LedgerTransactions =>
        \A j \in 1..Len(emitted) :
            /\ transactions[j].amount # 0
            /\ transactions[j].amount < 0
                   <=> HoldsExpenseKeyword(toLowerCase(transactions[j].description))
            /\ Abs(transactions[j].amount) = RunValue(memo[lines[emitted[j]]].amountStr)

\* a ledger with an expense ("Traspaso ... Credito") and an income ("Sueldo mes")
ExpenseAndIncome ==
    /\ pdfType = "current_account"
    /\ pc = "extracted"
    /\ Len(transactions) = 2
    /\ lines[emitted[1]] = IndexOf(LedgerExpenseLine)
    /\ transactions[1].amount = -61017
    /\ lines[emitted[2]] = IndexOf(LedgerTieLine)
    /\ transactions[2].amount = 80000


(***************************************************************************)
(* C21: every transaction of either dialect parser has a description that  *)
(* is trimmed, holds no two consecutive whitespace characters and has at   *)
(* least 3 characters.                                                     *)
(***************************************************************************)
NoWhiteSpaceRun(s) ==
    \A q \in 1..(Len(s) - 1) : ~(s[q] \in WhiteSpace /\ s[q + 1] \in WhiteSpace)

DescriptionsNormalized ==
    InDialect =>
        \A j \in 1..Len(transactions) :
            /\ Trimmed(transactions[j].description)
            /\ NoWhiteSpaceRun(transactions[j].description)
            /\ Len(transactions[j].description) >= 3


(***************************************************************************)
(* C22: the transactions drawn from a document are the same whenever the   *)
(* pipeline is run: each transaction of a ledger is the one its line gives *)
(* in every year the server's clock may show.                              *)
(***************************************************************************)
SameTransactionsWheneverRun ==
    LedgerTransactions =>
        \A j \in 1..Len(emitted), y \in 1..Len(Years) :
            LET other == memo[lines[emitted[j]]].step.current_account[y].result
            IN other.valid /\ other.tx = transactions[j]


(***************************************************************************)
(* C25: within one run no two transactions produced by                     *)
(* categorizeTransactions have the same id.                                *)
(***************************************************************************)
TransactionIdsDistinct ==
    pc \in {"categorized", "analyzed", "recommended"} =>
        \A i, j \in 1..Len(categorized) :
            categorized[i].id = categorized[j].id => i = j


(***************************************************************************)
(* C23: with several uploads in flight, the analysis stored for an upload  *)
(* holds the transactions, metrics and recommendations derived from its    *)
(* own file, the uploads get distinct analysis ids, and the response of an *)
(* upload is the one its own file calls for, whatever becomes of the       *)
(* others.                                                                 *)
(***************************************************************************)
IdsOf(categorizedTransactions) ==
    [i \in 1..Len(categorizedTransactions) |-> categorizedTransactions[i].id]

DerivedFrom(fileType, categorizedTransactions, m, analysis) ==
    /\ analysis.fileType = fileType
    /\ analysis.transactions = categorizedTransactions
    /\ analysis.totalIncome = m.totalIncome
    /\ analysis.totalExpenses = m.totalExpenses
    /\ analysis.savingsRate = m.savingsRate
    /\ analysis.categories = m.categories
    /\ analysis.recommendations = generateRecommendations(categorizedTransactions, m)

DerivedFromTransactions(fileType, categorizedTransactions, analysis) ==
    DerivedFrom(fileType, categorizedTransactions,
                generateAnalysis(categorizedTransactions, 100 * SubCent), analysis)

DerivedFromFile(file, analysis) ==
    /\ Len(analysis.transactions) = Len(file.raw)
    /\ DerivedFromTransactions(file.fileType,
            AsSeq(categorizeTransactions(file.raw, IdsOf(analysis.transactions))), analysis)

StatusCalledFor(f) ==
    IF f = 0 THEN "bad_request" ELSE IF UploadFiles[f].readable THEN "success" ELSE "error"

UploadsAreIndependent ==
    \A r \in 1..Len(requests) :
        /\ requests[r].pc = "responded" => requests[r].status = StatusCalledFor(requests[r].file)
        /\ requests[r].analysisId # 0 =>
              /\ requests[r].analysisId \in DOMAIN analyses
              /\ analyses[requests[r].analysisId].id = requests[r].analysisId
              /\ DerivedFromFile(UploadFiles[requests[r].file], analyses[requests[r].analysisId])
              /\ \A s \in 1..Len(requests) :
                    requests[s].analysisId = requests[r].analysisId => s = r

\* two uploads of different files, both answered with success
TwoUploadsStored ==
    /\ Len(requests) >= 2
    /\ requests[1].file = 1
    /\ requests[2].file = 2
    /\ requests[1].status = "success"
    /\ requests[2].status = "success"
    /\ requests[1].analysisId # requests[2].analysisId
    /\ Len(analyses[requests[1].analysisId].transactions) = 2
    /\ Len(analyses[requests[2].analysisId].transactions) = 1

(***************************************************************************)
(* C29: an upload answered with an error (400 or 500) leaves no analysis   *)
(* of its own in storage; an upload answered with success has stored one   *)
(* analysis, which getAnalysis returns under the id it was answered with.  *)
(***************************************************************************)
StoredBy(r) == {id \in DOMAIN analyses : requests[r].analysisId = id}

Answered(r) == requests[r].pc = "responded"

StoredFor == {r \in 1..Len(requests) : requests[r].analysisId # 0}

DocumentedAmount == RunValue(<<"2", ".", "9", "7", "5">>)

CodeDigitsNotAbsorbed ==
    LedgerTransactions =>
        \A j \in 1..Len(emitted) :
            lines[emitted[j]] = IndexOf(LedgerCodeLine) =>
                Abs(transactions[j].amount) = DocumentedAmount


(***************************************************************************)
(* C27: a transaction read from a spreadsheet or CSV row that has a debit  *)
(* column and a credit column and no single-amount column has for amount   *)
(* the credit less the debit (a missing cell counting as 0): debits are    *)
(* negative, credits positive, also under the headers "Debit" and          *)
(* "Credit".                                                               *)
(***************************************************************************)
SingleAmountNames ==
    <<<<"a", "m", "o", "u", "n", "t">>,
      <<"m", "o", "n", "t", "o">>,
      <<"v", "a", "l", "o", "r">>,
      <<"i", "m", "p", "o", "r", "t", "e">>,
      <<"b", "a", "l", "a", "n", "c", "e", "_", "c", "h", "a", "n", "g", "e">>>>

ColumnValue(row, col) == IF col = 0 THEN 0 ELSE CleanNumber(row[col][2], unit).v

DebitCreditRow(row) ==
    /\ findColumn(row, debitNames) # 0
    /\ findColumn(row, creditNames) # 0
    /\ findColumn(row, SingleAmountNames) = 0

RowDescription(row) == Trim(CellText(row[findColumn(row, descNames)][2], unit))

CreditLessDebit(row) ==
    ColumnValue(row, findColumn(row, creditNames)) - ColumnValue(row, findColumn(row, debitNames))

DebitsNegativeCreditsPositive ==
    (kind \in {".xlsx", ".xls", ".csv"} /\ pc = "extracted") =>
        \A i \in 1..Len(rows), j \in 1..Len(transactions) :
            (DebitCreditRow(rows[i])
                /\ transactions[j].description = RowDescription(rows[i]))
            => transactions[j].amount = CreditLessDebit(rows[i])


(***************************************************************************)
(* C28: in parseCreditCardTransaction the reversal grammar (the fifth) is  *)
(* never the grammar selected: every line it matches is matched by the     *)
(* fourth grammar or an earlier one, so patternUsed is never 5.            *)
(***************************************************************************)
ReversalGrammarNeverSelected ==
    (pdfType = "credit_card" /\ pc # "received") =>
        \A k \in 1..Len(calls) :
            /\ memo[calls[k]].step.credit_card.result.patternUsed # 5
            /\ 5 \in memo[calls[k]].matching.credit_card =>
                  memo[calls[k]].matching.credit_card \cap (1..4) # {}

\* the matcher was called on the reversal line, which the fifth grammar
\* matches, and the fourth grammar was the one selected
ReversalMatchedByFourth ==
    /\ pdfType = "credit_card"
    /\ \E k \in 1..Len(calls) :
          /\ calls[k] = IndexOf(ReversalLine)
          /\ 5 \in memo[calls[k]].matching.credit_card
          /\ memo[calls[k]].step.credit_card.result.patternUsed = 4


(***************************************************************************)
(* C30: every recommendation the TypeScript generateRecommendations        *)
(* produces is rendered by the Recommendations component: its type is one  *)
(* of the types the component displays, so none is left out of the page.   *)
(***************************************************************************)
Rendered(r) ==
    \E j \in 1..Len(Recommendations(recommendations)) :
        Recommendations(recommendations)[j] = r

EveryRecommendationRendered ==
    (Recommended /\ service = "ts") =>
        \A i \in 1..Len(recommendations) : Rendered(recommendations[i])

====
